---- MODULE Spec2Model ----
(***************************************************************************)
(* Model of the iLoveExcel core: the side-by-side diff engine              *)
(* (src/iLoveExcel/diffs.py), the union engine (src/iLoveExcel/unions.py), *)
(* the join engine (src/iLoveExcel/joins.py) and the CSV helpers of        *)
(* src/iLoveExcel/io.py.                                                   *)
(*                                                                         *)
(* A cell value is a tagged record (missing / number / string); a string   *)
(* is a sequence of one-character strings, so that trimming, case folding, *)
(* suffixing and ordering are computed as pandas computes them.  A         *)
(* DataFrame is [cols, index, data, obj]: the ordered column names, the    *)
(* ordered row labels, parallel to the labels one row (a function from     *)
(* column name to cell value) per label, and the set of columns whose      *)
(* dtype is object.                                                        *)
(***************************************************************************)
EXTENDS Integers, Sequences, FiniteSets, TLC

\* ------------------------------------------------------------------ bounds
\* Largest number of data rows of one input table.
MaxRows == 2
\* Largest number of data rows of the two diff inputs together.
MaxPairRows == 3

\* ------------------------------------------------------------ cell values
NaN == [k |-> "nan", n |-> 0, s |-> <<>>]
None == [k |-> "none", n |-> 0, s |-> <<>>]
Num(i) == [k |-> "num", n |-> i, s |-> <<>>]
Str(chars) == [k |-> "str", n |-> 0, s |-> chars]
\* The float i.0, the value of a whole number in a float64 column.
Flt(i) == [k |-> "flt", n |-> i, s |-> <<>>]

\* pd.isna / Series.isna: NaN and None are missing, every other value is not.
isna(v) == v.k \in {"nan", "none"}
notna(v) == ~isna(v)

\* Python's val_a != val_b on cell values: NaN is unequal to everything,
\* itself included; other values compare by type and content.
py_ne(a, b) == IF a.k = "nan" \/ b.k = "nan" THEN TRUE ELSE a # b

Range(f) == {f[i] : i \in DOMAIN f}

\* ---------------------------------------------------------------- strings
\* The characters in use, in code point order.
Alphabet == <<" ", "0", "1", "2", "3", "4", "5", "6", "7", "8", "9",
              "A", "B", "C", "_", "a", "b", "c", "d", "e", "f", "g",
              "h", "i", "l", "m", "n", "o", "p", "r", "t", "w", "x", "y">>

CharRank(c) == CHOOSE i \in DOMAIN Alphabet : Alphabet[i] = c

\* str.lower on one character.
LowerChar(c) == CASE c = "A" -> "a" [] c = "B" -> "b" [] c = "C" -> "c" [] OTHER -> c

\* str.lower
lower(s) == [i \in DOMAIN s |-> LowerChar(s[i])]

RECURSIVE lstrip(_)
lstrip(s) == IF s # <<>> /\ Head(s) = " " THEN lstrip(Tail(s)) ELSE s

RECURSIVE rstrip(_)
rstrip(s) == IF s # <<>> /\ s[Len(s)] = " " THEN rstrip(SubSeq(s, 1, Len(s) - 1)) ELSE s

\* str.strip
strip(s) == rstrip(lstrip(s))

\* str.endswith
endswith(s, suf) ==
    /\ Len(s) >= Len(suf)
    /\ SubSeq(s, Len(s) - Len(suf) + 1, Len(s)) = suf

\* str.replace(old, ""): every non-overlapping occurrence of old removed,
\* scanning left to right.
RECURSIVE remove_all(_, _)
remove_all(s, old) ==
    IF Len(s) < Len(old) THEN s
    ELSE IF SubSeq(s, 1, Len(old)) = old
         THEN remove_all(SubSeq(s, Len(old) + 1, Len(s)), old)
         ELSE <<Head(s)>> \o remove_all(Tail(s), old)

\* Lexicographic order of strings by code point (Python's str <).
RECURSIVE str_lt(_, _)
str_lt(s, t) ==
    IF t = <<>> THEN FALSE
    ELSE IF s = <<>> THEN TRUE
    ELSE IF Head(s) = Head(t) THEN str_lt(Tail(s), Tail(t))
    ELSE CharRank(Head(s)) < CharRank(Head(t))

\* astype(str) on a cell of an object column: a string stays, a missing
\* value becomes the text "nan".
astype_str(v) == IF v.k = "str" THEN v.s ELSE <<"n", "a", "n">>

\* sorted(...) of a set of strings.
RECURSIVE sorted_strs(_)
sorted_strs(S) ==
    IF S = {} THEN <<>>
    ELSE LET m == CHOOSE x \in S : \A y \in S \ {x} : str_lt(x, y)
         IN <<m>> \o sorted_strs(S \ {m})

\* ------------------------------------------------------------- DataFrames
\* Column names of the model.
c_id == <<"i", "d">>
c_name == <<"n", "a", "m", "e">>
c_dept == <<"d", "e", "p", "t">>

\* len(df)
len(df) == Len(df.index)

\* df[col].dtype == 'object'
is_object(df, col) == col \in df.obj

\* DataFrame.reindex(columns=cols) and df[cols]: keep the listed columns in
\* the listed order, a column the frame lacks is filled with NaN.
reindex_columns(df, cols) ==
    [cols |-> cols, index |-> df.index,
     data |-> [i \in 1..len(df) |->
                 [c \in Range(cols) |->
                    IF c \in Range(df.cols) THEN df.data[i][c] ELSE NaN]],
     obj |-> df.obj \cap Range(cols)]

\* Position of label in an index.
loc(df, label) == CHOOSE i \in 1..len(df) : df.index[i] = label

\* DataFrame.reindex(labels): one row per label, all-NaN where the frame
\* has no such label.
reindex_rows(df, labels) ==
    [cols |-> df.cols, index |-> labels,
     data |-> [k \in 1..Len(labels) |->
                 IF labels[k] \in Range(df.index)
                 THEN df.data[loc(df, labels[k])]
                 ELSE [c \in Range(df.cols) |-> NaN]],
     obj |-> df.obj]

\* DataFrame.head(n) for n >= 0: the first n rows, the dtypes kept.
head(df, n) ==
    IF len(df) <= n THEN df
    ELSE [cols |-> df.cols, index |-> SubSeq(df.index, 1, n),
          data |-> SubSeq(df.data, 1, n), obj |-> df.obj]

\* sorted(...) of a set of integer labels.
RECURSIVE sorted_ints(_)
sorted_ints(S) ==
    IF S = {} THEN <<>>
    ELSE LET m == CHOOSE x \in S : \A y \in S : x <= y
         IN <<m>> \o sorted_ints(S \ {m})

\* ----------------------------------------------------------- diff helpers
s_row_a == <<"_", "r", "o", "w", "_", "a">>
s_row_b == <<"_", "r", "o", "w", "_", "b">>
s_merge == <<"_", "m", "e", "r", "g", "e">>
suffix_a == <<"_", "a">>
suffix_b == <<"_", "b">>
left_only == Str(<<"l", "e", "f", "t", "_", "o", "n", "l", "y">>)
right_only == Str(<<"r", "i", "g", "h", "t", "_", "o", "n", "l", "y">>)
both == Str(<<"b", "o", "t", "h">>)

\* A file that does not exist.
NoFile == [cols |-> <<>>, index |-> <<>>, data |-> <<>>, exists |-> FALSE]

\* What read_csv_chunked(path, chunksize=None) returns for an existing file:
\* the table with a RangeIndex 0..n-1.  pd.read_csv gives a column the object
\* dtype when it holds text or when the file has no data row; a column of
\* numbers and empty fields is numeric.
read_csv(file) ==
    [cols |-> file.cols, index |-> file.index, data |-> file.data,
     obj |-> {c \in Range(file.cols) :
                \/ Len(file.data) = 0
                \/ \E i \in 1..Len(file.data) : file.data[i][c].k = "str"}]

\* _read_file: read, then keep the first max_rows rows (max_rows = -1 stands
\* for None).
_read_file(file, max_rows) ==
    LET df == read_csv(file)
    IN IF max_rows # -1 /\ len(df) > max_rows THEN head(df, max_rows) ELSE df

\* _strip_whitespace: every object column becomes astype(str).str.strip().
_strip_whitespace(df) ==
    [cols |-> df.cols, index |-> df.index,
     data |-> [i \in 1..len(df) |->
                 [c \in Range(df.cols) |->
                    IF is_object(df, c)
                    THEN Str(strip(astype_str(df.data[i][c])))
                    ELSE df.data[i][c]]],
     obj |-> df.obj]

\* _lowercase_strings: every object column becomes astype(str).str.lower().
_lowercase_strings(df) ==
    [cols |-> df.cols, index |-> df.index,
     data |-> [i \in 1..len(df) |->
                 [c \in Range(df.cols) |->
                    IF is_object(df, c)
                    THEN Str(lower(astype_str(df.data[i][c])))
                    ELSE df.data[i][c]]],
     obj |-> df.obj]

\* Lines 82-89 of diff_csv_side_by_side: the optional normalisations.
preprocess(df, ignore_whitespace, case_insensitive) ==
    LET d1 == IF ignore_whitespace THEN _strip_whitespace(df) ELSE df
    IN IF case_insensitive THEN _lowercase_strings(d1) ELSE d1

\* The columns of b that a lacks, in b's order (the loop of lines 215-217).
new_columns(a_cols, b_cols) == SelectSeq(b_cols, LAMBDA c : c \notin Range(a_cols))

\* _align_by_index: <<df_a, df_b>> over the same columns and the same labels.
_align_by_index(df_a, df_b, ignore_column_order) ==
    LET cols == IF ignore_column_order
                THEN sorted_strs(Range(df_a.cols) \cap Range(df_b.cols))
                ELSE df_a.cols \o new_columns(df_a.cols, df_b.cols)
        a == reindex_columns(df_a, cols)
        b == reindex_columns(df_b, cols)
        all_indices == sorted_ints(Range(a.index) \cup Range(b.index))
    IN <<reindex_rows(a, all_indices), reindex_rows(b, all_indices)>>

\* Order of two key cells in a sort: numbers by value, text by code point,
\* missing keys last.
val_lt(a, b) ==
    IF isna(a) THEN FALSE
    ELSE IF isna(b) THEN TRUE
    ELSE IF a.k = "num" /\ b.k = "num" THEN a.n < b.n
    ELSE IF a.k = "str" /\ b.k = "str" THEN str_lt(a.s, b.s)
    ELSE a.k = "num"

\* Equality of two key cells in a merge: missing matches missing.
key_eq(a, b) ==
    IF isna(a) \/ isna(b) THEN isna(a) /\ isna(b)
    ELSE IF a.k \in {"num", "flt"} /\ b.k \in {"num", "flt"} THEN a.n = b.n
    ELSE a = b

\* Lexicographic order of two rows on the key columns.
RECURSIVE keys_lt(_, _, _)
keys_lt(ra, rb, keys) ==
    IF keys = <<>> THEN FALSE
    ELSE IF key_eq(ra[Head(keys)], rb[Head(keys)]) THEN keys_lt(ra, rb, Tail(keys))
    ELSE val_lt(ra[Head(keys)], rb[Head(keys)])

keys_eq(ra, rb, keys) == \A k \in Range(keys) : key_eq(ra[k], rb[k])

\* df.copy() with one more column holding range(len(df)).
with_row_number(df, col) ==
    [cols |-> Append(df.cols, col), index |-> df.index,
     data |-> [i \in 1..len(df) |->
                 [c \in Range(df.cols) \cup {col} |->
                    IF c = col THEN Num(i - 1) ELSE df.data[i][c]]],
     obj |-> df.obj]

\* The row pairs of pd.merge(left, right, on=keys, how='outer'): <<i, j>> for
\* a left row i and a right row j with equal keys, <<i, 0>> for a left row
\* without partner, <<0, j>> for a right row without partner.
outer_pairs(left, right, keys) ==
    {<<i, j>> \in (1..len(left)) \X (1..len(right)) :
        keys_eq(left.data[i], right.data[j], keys)}
    \cup {<<i, 0>> : i \in {i \in 1..len(left) :
            \A j \in 1..len(right) : ~keys_eq(left.data[i], right.data[j], keys)}}
    \cup {<<0, j>> : j \in {j \in 1..len(right) :
            \A i \in 1..len(left) : ~keys_eq(left.data[i], right.data[j], keys)}}

\* The key-bearing row of a pair.
pair_key_row(left, right, p) == IF p[1] > 0 THEN left.data[p[1]] ELSE right.data[p[2]]

\* An outer merge sorts the result by key; rows of one key keep left order,
\* then right order.
pair_lt(left, right, keys, p, q) ==
    LET kp == pair_key_row(left, right, p)
        kq == pair_key_row(left, right, q)
    IN \/ keys_lt(kp, kq, keys)
       \/ /\ keys_eq(kp, kq, keys)
          /\ \/ p[1] < q[1]
             \/ p[1] = q[1] /\ p[2] < q[2]

RECURSIVE sorted_pairs(_, _, _, _)
sorted_pairs(left, right, keys, P) ==
    IF P = {} THEN <<>>
    ELSE LET m == CHOOSE p \in P : \A q \in P \ {p} : pair_lt(left, right, keys, p, q)
         IN <<m>> \o sorted_pairs(left, right, keys, P \ {m})

\* Name of a left (right) column in the merged frame: a non-key column that
\* both sides have gets the side's suffix.
merged_name(c, other_cols, keys, suffix) ==
    IF c \notin Range(keys) /\ c \in Range(other_cols) THEN c \o suffix ELSE c

\* pd.merge(left, right, on=keys, how='outer', suffixes=('_a', '_b'),
\* indicator=True)
merge_outer(left, right, keys) ==
    LET lnames == [i \in 1..Len(left.cols) |->
                     merged_name(left.cols[i], right.cols, keys, suffix_a)]
        rcols == SelectSeq(right.cols, LAMBDA c : c \notin Range(keys))
        rnames == [i \in 1..Len(rcols) |->
                     merged_name(rcols[i], left.cols, keys, suffix_b)]
        pairs == sorted_pairs(left, right, keys, outer_pairs(left, right, keys))
        cell(p, c) ==
            IF c = s_merge
            THEN (IF p[2] = 0 THEN left_only ELSE IF p[1] = 0 THEN right_only ELSE both)
            ELSE IF c \in Range(keys) THEN pair_key_row(left, right, p)[c]
            ELSE IF \E i \in 1..Len(lnames) : lnames[i] = c
            THEN (IF p[1] = 0 THEN NaN
                  ELSE left.data[p[1]][left.cols[CHOOSE i \in 1..Len(lnames) : lnames[i] = c]])
            ELSE (IF p[2] = 0 THEN NaN
                  ELSE right.data[p[2]][rcols[CHOOSE i \in 1..Len(rnames) : rnames[i] = c]])
        cols == lnames \o rnames \o <<s_merge>>
    IN [cols |-> cols,
        index |-> [k \in 1..Len(pairs) |-> k - 1],
        data |-> [k \in 1..Len(pairs) |-> [c \in Range(cols) |-> cell(pairs[k], c)]],
        obj |-> {}]

\* merged[[c for c in merged.columns if c.endswith(suffix) or c in
\* key_columns or c == '_merge']] with the columns renamed by
\* c.replace(suffix, '').
side_of_merged(merged, keys, suffix) ==
    LET kept == SelectSeq(merged.cols,
                    LAMBDA c : endswith(c, suffix) \/ c \in Range(keys) \/ c = s_merge)
        names == [i \in 1..Len(kept) |-> remove_all(kept[i], suffix)]
    IN [cols |-> names, index |-> merged.index,
        data |-> [k \in 1..len(merged) |->
                    [c \in Range(names) |->
                       merged.data[k][kept[CHOOSE i \in 1..Len(names) : names[i] = c]]]],
        obj |-> {}]

\* The first key column that _align_by_key rejects, as <<column, file>>, or
\* <<>> when every key column is in both tables (lines 238-242).
RECURSIVE missing_key(_, _, _)
missing_key(df_a, df_b, key_columns) ==
    IF key_columns = <<>> THEN <<>>
    ELSE IF Head(key_columns) \notin Range(df_a.cols) THEN <<Head(key_columns), "A">>
    ELSE IF Head(key_columns) \notin Range(df_b.cols) THEN <<Head(key_columns), "B">>
    ELSE missing_key(df_a, df_b, Tail(key_columns))

\* A diff that takes an empty key list for a key.
KeysNeverEmpty(key_columns) == FALSE

\* not key_columns (line 95)
no_keys(key_columns) == key_columns = <<>>

\* _align_by_key past its validation (lines 244-269).
_align_by_key(df_a, df_b, key_columns) ==
    LET merged == merge_outer(with_row_number(df_a, s_row_a),
                              with_row_number(df_b, s_row_b), key_columns)
    IN <<side_of_merged(merged, key_columns, suffix_a),
         side_of_merged(merged, key_columns, suffix_b)>>

\* ------------------------------------------------------- _compare_dataframes
suffix_A == <<"_", "A">>
suffix_B == <<"_", "B">>

\* Series.get(col): the cell, or None when the row has no such column.
get(row, col) == IF col \in DOMAIN row THEN row[col] ELSE None

\* An is_only_a that does not ask the A-row for a value.
IsOnlyAIgnoresA(row_a, row_b) == \A c \in DOMAIN row_b : isna(row_b[c])

\* An is_only_b that does not ask the A-row to be missing.
IsOnlyBIgnoresA(row_a, row_b) == \E c \in DOMAIN row_b : notna(row_b[c])

\* Line 294.
is_only_a(row_a, row_b) ==
    /\ \E c \in DOMAIN row_a : notna(row_a[c])
    /\ \A c \in DOMAIN row_b : isna(row_b[c])

\* Line 295.
is_only_b(row_a, row_b) ==
    /\ \A c \in DOMAIN row_a : isna(row_a[c])
    /\ \E c \in DOMAIN row_b : notna(row_b[c])

\* A has_diff without the test for two missing cells of lines 311-312.
HasDiffCountsMissing(row_a, row_b, cols) ==
    \E c \in Range(cols) : py_ne(get(row_a, c), get(row_b, c))

\* Lines 305-315: some column of df_a holds two cells that are not both
\* missing and are unequal.
has_diff(row_a, row_b, cols) ==
    \E c \in Range(cols) :
        /\ ~(isna(get(row_a, c)) /\ isna(get(row_b, c)))
        /\ py_ne(get(row_a, c), get(row_b, c))

\* Lines 297-322: the status of one aligned pair.
row_status(row_a, row_b, cols) ==
    IF is_only_a(row_a, row_b) THEN "ONLY_A"
    ELSE IF is_only_b(row_a, row_b) THEN "ONLY_B"
    ELSE IF has_diff(row_a, row_b, cols) THEN "DIFF"
    ELSE "MATCH"

\* Lines 328-336: the result row of one aligned pair.
result_row(idx, status, row_a, row_b, cols) ==
    [Row_Index |-> idx, Status |-> status,
     cells |-> [name \in {c \o suffix_A : c \in Range(cols)}
                         \cup {c \o suffix_B : c \in Range(cols)} |->
                  IF endswith(name, suffix_A)
                  THEN get(row_a, SubSeq(name, 1, Len(name) - 2))
                  ELSE get(row_b, SubSeq(name, 1, Len(name) - 2))]]

ZeroStats == [total |-> 0, matching |-> 0, different |-> 0, only_a |-> 0, only_b |-> 0]

\* Counters that count a row of B alone as a different row as well.
CountOnlyBTwice(st, status) ==
    [total |-> st.total + 1,
     matching |-> st.matching + (IF status = "MATCH" THEN 1 ELSE 0),
     different |-> st.different + (IF status \in {"DIFF", "ONLY_B"} THEN 1 ELSE 0),
     only_a |-> st.only_a + (IF status = "ONLY_A" THEN 1 ELSE 0),
     only_b |-> st.only_b + (IF status = "ONLY_B" THEN 1 ELSE 0)]

\* Lines 297-324: the counters after one more pair of the given status.
count(st, status) ==
    [total |-> st.total + 1,
     matching |-> st.matching + (IF status = "MATCH" THEN 1 ELSE 0),
     different |-> st.different + (IF status = "DIFF" THEN 1 ELSE 0),
     only_a |-> st.only_a + (IF status = "ONLY_A" THEN 1 ELSE 0),
     only_b |-> st.only_b + (IF status = "ONLY_B" THEN 1 ELSE 0)]

\* A filter that keeps DIFF rows only.
KeepsOnlyDiff(show_only_diffs, status) == ~show_only_diffs \/ status = "DIFF"

\* Line 327: whether the pair goes into the result table.
keeps(show_only_diffs, status) == ~show_only_diffs \/ status # "MATCH"

\* One pass of the loop of lines 289-338 over position k of df_a.index, from
\* the accumulated <<result_rows, stats>>.
compare_step(acc, a, b, show_only_diffs, k) ==
    LET idx == a.index[k]
        row_a == a.data[k]
        row_b == b.data[loc(b, idx)]
        status == row_status(row_a, row_b, a.cols)
    IN <<IF keeps(show_only_diffs, status)
         THEN Append(acc[1], result_row(idx, status, row_a, row_b, a.cols))
         ELSE acc[1],
         count(acc[2], status)>>

\* _compare_dataframes: <<result_rows, stats>> after the first n pairs.
RECURSIVE _compare_dataframes(_, _, _, _)
_compare_dataframes(a, b, show_only_diffs, n) ==
    IF n = 0 THEN <<(<<>>), ZeroStats>>
    ELSE compare_step(_compare_dataframes(a, b, show_only_diffs, n - 1),
                      a, b, show_only_diffs, n)

\* diff_csv_side_by_side on two existing files, start to end: what it
\* returns, or the error it raises.
diff_csv_side_by_side(fa, fb, o) ==
    LET a == preprocess(_read_file(fa, o.max_rows), o.ignore_whitespace, o.case_insensitive)
        b == preprocess(_read_file(fb, o.max_rows), o.ignore_whitespace, o.case_insensitive)
        compared(al) == _compare_dataframes(al[1], al[2], o.show_only_diffs, len(al[1]))
        returned(r) == [err |-> "", rows |-> r[1], stats |-> r[2]]
        raised(e) == [err |-> e, rows |-> <<>>, stats |-> ZeroStats]
    IN IF o.compare_by_index
       THEN returned(compared(_align_by_index(a, b, o.ignore_column_order)))
       ELSE IF no_keys(o.key_columns) THEN raised("key_columns must be provided")
       ELSE IF missing_key(a, b, o.key_columns) # <<>> THEN raised("Key column not found")
       ELSE returned(compared(_align_by_key(a, b, o.key_columns)))

\* ------------------------------------------------------------ diff inputs
v_Bob == Str(<<"B", "o", "b">>)
v_bob_sp == Str(<<" ", "b", "o", "b">>)
v_Alice == Str(<<"A", "l", "i", "c", "e">>)
v_Cara == Str(<<"C", "a", "r", "a">>)

\* A row over the columns id and name.
Row(i, nm) == (c_id :> i) @@ (c_name :> nm)

\* The rows the input tables are made of: two keys, one of them with a
\* missing name, and a row of missing values.
RowUniverse == {Row(Num(1), NaN), Row(Num(2), v_Bob), Row(NaN, NaN)}

\* The sequences over S of length n.
SeqsOfLen(S, n) == [1..n -> S]

\* A file of the given columns whose rows are rs; ren names the column that
\* holds the name values.
File(cols, ren, rs) ==
    [cols |-> cols, index |-> [i \in 1..Len(rs) |-> i - 1],
     data |-> [i \in 1..Len(rs) |->
                 [c \in Range(cols) |-> IF c = ren THEN rs[i][c_name] ELSE rs[i][c_id]]],
     exists |-> TRUE]

\* The same rows as a file over id and name, and as a file whose columns are
\* dept (holding the names) and id, in that order.
Variants(rs) ==
    {File(<<c_id, c_name>>, c_name, rs), File(<<c_dept, c_id>>, c_dept, rs)}

\* The scenario of the specification: A = [(1, Alice), (2, Bob)],
\* B = [(2, Bob), (3, Cara)].
ScenarioA == File(<<c_id, c_name>>, c_name, <<Row(Num(1), v_Alice), Row(Num(2), v_Bob)>>)
ScenarioB == File(<<c_id, c_name>>, c_name, <<Row(Num(2), v_Bob), Row(Num(3), v_Cara)>>)

\* Two one-row files whose names differ in case and blanks only (as in
\* test_ignore_whitespace and test_case_insensitive).
BlanksA == File(<<c_id, c_name>>, c_name, <<Row(Num(2), v_Bob)>>)
BlanksB == File(<<c_id, c_name>>, c_name, <<Row(Num(2), v_bob_sp)>>)

LenPairs == {p \in (0..MaxRows) \X (0..MaxRows) : p[1] + p[2] <= MaxPairRows}

FilePairs ==
    UNION {{<<File(<<c_id, c_name>>, c_name, ra), fb>> :
              ra \in SeqsOfLen(RowUniverse, p[1]),
              fb \in UNION {Variants(rb) : rb \in SeqsOfLen(RowUniverse, p[2])}} :
           p \in LenPairs}
    \cup {<<File(<<c_id, c_name>>, c_name, rs), File(<<c_id, c_name>>, c_name, rs)>> :
             rs \in UNION {SeqsOfLen(RowUniverse, n) : n \in 0..MaxRows}}
    \cup {<<ScenarioA, ScenarioB>>, <<BlanksA, BlanksB>>, <<BlanksB, BlanksA>>}
    \cup {<<NoFile, ScenarioB>>, <<ScenarioA, NoFile>>}

KeyChoices == {<<>>, <<c_id>>, <<c_name>>, <<c_dept>>}

\* compare_by_index with ignore_column_order, or key_columns (which
\* _align_by_key takes without using ignore_column_order).
Modes ==
    {[compare_by_index |-> TRUE, key_columns |-> <<>>, ignore_column_order |-> ico] :
        ico \in BOOLEAN}
    \cup {[compare_by_index |-> FALSE, key_columns |-> k, ignore_column_order |-> FALSE] :
        k \in KeyChoices}

\* show_only_diffs and max_rows (-1 for None).
Filters == {<<FALSE, -1>>, <<TRUE, -1>>, <<FALSE, 1>>}

Options ==
    {[compare_by_index |-> m.compare_by_index, key_columns |-> m.key_columns,
      ignore_whitespace |-> ws, case_insensitive |-> ci,
      ignore_column_order |-> m.ignore_column_order,
      show_only_diffs |-> f[1], max_rows |-> f[2]] :
        m \in Modes, ws \in BOOLEAN, ci \in BOOLEAN, f \in Filters}

EmptyFrame == [cols |-> <<>>, index |-> <<>>, data |-> <<>>, obj |-> {}]

\* ------------------------------------------------- diff_csv_side_by_side
VARIABLES file_a, file_b, options, pc, df_a, df_b, pos, status, result_rows,
          stats, err, ret

\* The state of a union call: the function called, its arguments, its
\* position, the frames read so far, the combined frame, the error raised and
\* the output file on disk.
VARIABLES u_fn, u_files, u_dedupe, u_dedupe_columns, u_pc, u_dfs, df_union,
          u_err, out_file

\* The chunked branch of union_multiple_csvs: the chunk size (-1 stands for
\* None), the file and the chunk the loops are at, and the first_file flag.
VARIABLES u_chunksize, file_idx, chunk_idx, first_file

\* The state of a join call: the function called, its arguments, its
\* position, the frames read, the file the loop is at, the joined frame, the
\* error raised, the value returned and the output file on disk.
VARIABLES j_fn, j_files, j_on, j_how, j_pc, df_left, df_right, j_idx, df_result,
          j_err, j_ret, j_out

\* A sheet name on its way to the spreadsheet writer: the function that
\* passes it, the name or path the caller gave, the position, and the name
\* the writer gets.
VARIABLES s_fn, s_name, s_pc, s_sheet

\* The Tk window: state.is_running, the two buttons, the worker threads
\* created so far (worker_thread is the last), the result and the log queue,
\* the number of pending root.after(100, _poll_result_queue) callbacks, the
\* position of the GUI thread, and the last message box shown.
VARIABLES is_running, start_button, stop_button, workers, result_queue,
          log_queue, after_polls, g_pc, dialog

dvars == <<file_a, file_b, options, pc, df_a, df_b, pos, status, result_rows,
           stats, err, ret>>

cvars == <<u_chunksize, file_idx, chunk_idx, first_file>>

uvars == <<u_fn, u_files, u_dedupe, u_dedupe_columns, u_pc, u_dfs, df_union,
           u_err, out_file, cvars>>

jvars == <<j_fn, j_files, j_on, j_how, j_pc, df_left, df_right, j_idx, df_result,
           j_err, j_ret, j_out>>

svars == <<s_fn, s_name, s_pc, s_sheet>>

\* The state of a merge call: the function called, its arguments, its
\* position, the sheet names to go through, the sheet or file the loop is at,
\* the frames read of the named sheet, the merged sheets, the error raised
\* and the output workbook on disk.
VARIABLES m_fn, m_files, m_mode, m_sheet_name, m_pc, m_names, m_idx, sheet_dfs,
          merged_sheets, m_err, m_out

mvars == <<m_fn, m_files, m_mode, m_sheet_name, m_pc, m_names, m_idx, sheet_dfs,
           merged_sheets, m_err, m_out>>

gvars == <<is_running, start_button, stop_button, workers, result_queue,
           log_queue, after_polls, g_pc, dialog>>

\* The variables of the Excel side and of the window.
xvars == <<svars, gvars, mvars>>

vars == <<dvars, uvars, jvars, xvars>>

\* What a step of one engine leaves alone.
not_diff == <<uvars, jvars, xvars>>
not_union == <<dvars, jvars, xvars>>
not_join == <<dvars, uvars, xvars>>
not_sheet == <<dvars, uvars, jvars, gvars, mvars>>
not_gui == <<dvars, uvars, jvars, svars, mvars>>
not_merge == <<dvars, uvars, jvars, svars, gvars>>

\* No sheet name on its way.
SheetIdle == s_fn = "" /\ s_name = <<>> /\ s_pc = "idle" /\ s_sheet = <<>>

\* No window open.
GuiIdle ==
    /\ is_running = FALSE /\ start_button = "normal" /\ stop_button = "disabled"
    /\ workers = <<>> /\ result_queue = <<>> /\ log_queue = <<>>
    /\ after_polls = 0 /\ g_pc = "off" /\ dialog = ""

\* The error a merge call raised: its message, and for a column mismatch the
\* sheet and the two column lists it names.
NoMergeError == [kind |-> "", sheet |-> <<>>, reference |-> <<>>, current |-> <<>>]
MergeError(kind) == [kind |-> kind, sheet |-> <<>>, reference |-> <<>>, current |-> <<>>]

\* No workbook on disk.
NoBook == [exists |-> FALSE, sheets |-> <<>>]

\* No merge call in progress.
MergeIdle ==
    /\ m_fn = "" /\ m_files = <<>> /\ m_mode = "" /\ m_sheet_name = <<>>
    /\ m_pc = "idle" /\ m_names = <<>> /\ m_idx = 0 /\ sheet_dfs = <<>>
    /\ merged_sheets = <<>> /\ m_err = NoMergeError /\ m_out = NoBook

\* Nothing in progress on the Excel side and no window open.
ExcelIdle == SheetIdle /\ GuiIdle /\ MergeIdle

NoReturn == [rows |-> <<>>, stats |-> ZeroStats]

\* No union call in progress.
UnionIdle ==
    /\ u_fn = "" /\ u_files = <<>> /\ u_dedupe = FALSE /\ u_dedupe_columns = <<>>
    /\ u_pc = "idle" /\ u_dfs = <<>> /\ df_union = EmptyFrame /\ u_err = ""
    /\ out_file = [exists |-> FALSE, lines |-> <<>>]
    /\ u_chunksize = -1 /\ file_idx = 0 /\ chunk_idx = 0 /\ first_file = TRUE

\* The error a join call raised.
NoError == [kind |-> "", key |-> <<>>, table |-> ""]
Error(kind) == [kind |-> kind, key |-> <<>>, table |-> ""]
KeyNotFound(key, table) == [kind |-> "Join key not found", key |-> key, table |-> table]

\* What a join call has returned: nothing yet, or a frame.
NotReturned == [returned |-> FALSE, df |-> EmptyFrame]

\* No join call in progress.
JoinIdle ==
    /\ j_fn = "" /\ j_files = <<>> /\ j_on = <<>> /\ j_how = "" /\ j_pc = "idle"
    /\ df_left = EmptyFrame /\ df_right = EmptyFrame /\ j_idx = 0
    /\ df_result = EmptyFrame /\ j_err = NoError /\ j_ret = NotReturned
    /\ j_out = [exists |-> FALSE, lines |-> <<>>]

InitDiff ==
    /\ UnionIdle
    /\ JoinIdle
    /\ ExcelIdle
    /\ \E fp \in FilePairs : file_a = fp[1] /\ file_b = fp[2]
    /\ options \in Options
    /\ pc = "start"
    /\ df_a = EmptyFrame
    /\ df_b = EmptyFrame
    /\ pos = 0
    /\ status = ""
    /\ result_rows = <<>>
    /\ stats = ZeroStats
    /\ err = ""
    /\ ret = NoReturn

\* Lines 65-71: both paths must exist.
CheckFiles ==
    /\ pc = "start"
    /\ IF ~file_a.exists THEN pc' = "raised" /\ err' = "File A not found"
       ELSE IF ~file_b.exists THEN pc' = "raised" /\ err' = "File B not found"
       ELSE pc' = "read" /\ err' = err
    /\ UNCHANGED not_diff
    /\ UNCHANGED <<file_a, file_b, options, df_a, df_b, pos, status, result_rows, stats, ret>>

\* Lines 75-77.
ReadFiles ==
    /\ pc = "read"
    /\ df_a' = _read_file(file_a, options.max_rows)
    /\ df_b' = _read_file(file_b, options.max_rows)
    /\ pc' = "preprocess"
    /\ UNCHANGED not_diff
    /\ UNCHANGED <<file_a, file_b, options, pos, status, result_rows, stats, err, ret>>

\* Lines 82-89.
Preprocess ==
    /\ pc = "preprocess"
    /\ df_a' = preprocess(df_a, options.ignore_whitespace, options.case_insensitive)
    /\ df_b' = preprocess(df_b, options.ignore_whitespace, options.case_insensitive)
    /\ pc' = "align"
    /\ UNCHANGED not_diff
    /\ UNCHANGED <<file_a, file_b, options, pos, status, result_rows, stats, err, ret>>

\* Lines 91-97, with the validation of _align_by_key, and lines 279-287.
Align ==
    /\ pc = "align"
    /\ IF options.compare_by_index
       THEN LET al == _align_by_index(df_a, df_b, options.ignore_column_order)
            IN df_a' = al[1] /\ df_b' = al[2] /\ pc' = "compare" /\ err' = err
       ELSE IF no_keys(options.key_columns)
       THEN /\ pc' = "raised"
            /\ err' = "key_columns must be provided"
            /\ UNCHANGED <<df_a, df_b>>
       ELSE IF missing_key(df_a, df_b, options.key_columns) # <<>>
       THEN /\ pc' = "raised"
            /\ err' = "Key column not found"
            /\ UNCHANGED <<df_a, df_b>>
       ELSE LET al == _align_by_key(df_a, df_b, options.key_columns)
            IN df_a' = al[1] /\ df_b' = al[2] /\ pc' = "compare" /\ err' = err
    /\ UNCHANGED not_diff
    /\ UNCHANGED <<file_a, file_b, options, pos, status, result_rows, stats, ret>>

\* One pass of the loop of lines 289-338.
CompareRow ==
    /\ pc = "compare"
    /\ pos < len(df_a)
    /\ LET r == compare_step(<<result_rows, stats>>, df_a, df_b,
                             options.show_only_diffs, pos + 1)
       IN /\ result_rows' = r[1]
          /\ stats' = r[2]
    /\ status' = row_status(df_a.data[pos + 1],
                            df_b.data[loc(df_b, df_a.index[pos + 1])], df_a.cols)
    /\ pos' = pos + 1
    /\ UNCHANGED not_diff
    /\ UNCHANGED <<file_a, file_b, options, pc, df_a, df_b, err, ret>>

\* Lines 340-341 and 102-103.
Return ==
    /\ pc = "compare"
    /\ pos = len(df_a)
    /\ ret' = [rows |-> result_rows, stats |-> stats]
    /\ pc' = "done"
    /\ UNCHANGED not_diff
    /\ UNCHANGED <<file_a, file_b, options, df_a, df_b, pos, status, result_rows, stats, err>>

NextDiff == CheckFiles \/ ReadFiles \/ Preprocess \/ Align \/ CompareRow \/ Return

SpecDiff == InitDiff /\ [][NextDiff]_vars

\* ------------------------------------------------------- diff properties
\* The rows of the two inputs after the row cap, as the call sees them.
InA == _read_file(file_a, options.max_rows)
InB == _read_file(file_b, options.max_rows)

Plain == ~options.ignore_whitespace /\ ~options.case_insensitive
KeyMode == ~options.compare_by_index /\ file_a.exists /\ file_b.exists
PositionMode == options.compare_by_index /\ file_a.exists /\ file_b.exists

\* The key columns are usable: given, and present in both tables.
KeysValid ==
    /\ options.key_columns # <<>>
    /\ Range(options.key_columns) \subseteq (Range(file_a.cols) \cap Range(file_b.cols))

\* The result rows whose key cells are those of row r.
RowsOfKey(r) ==
    {k \in 1..Len(ret.rows) :
        \A c \in Range(options.key_columns) :
            key_eq(ret.rows[k].cells[c \o suffix_A], r[c])}

\* The columns both inputs have besides the key.
SharedNonKey == (Range(InA.cols) \cap Range(InB.cols)) \ Range(options.key_columns)

\* C1: in key mode a key present only in A yields ONLY_A rows, a key present
\* only in B yields ONLY_B rows, a key present once on each side with equal
\* non-key values yields a MATCH row wherever the two rows sit, and the
\* scenario of the specification gives total 3, matching 1, different 0,
\* only_a 1, only_b 1.
C1_KeyClassification ==
    (pc = "done" /\ KeyMode /\ KeysValid /\ Plain /\ ~options.show_only_diffs) =>
        /\ \A i \in 1..len(InA) :
             (\A j \in 1..len(InB) : ~keys_eq(InA.data[i], InB.data[j], options.key_columns))
             => /\ RowsOfKey(InA.data[i]) # {}
                /\ \A k \in RowsOfKey(InA.data[i]) : ret.rows[k].Status = "ONLY_A"
        /\ \A j \in 1..len(InB) :
             (\A i \in 1..len(InA) : ~keys_eq(InA.data[i], InB.data[j], options.key_columns))
             => /\ RowsOfKey(InB.data[j]) # {}
                /\ \A k \in RowsOfKey(InB.data[j]) : ret.rows[k].Status = "ONLY_B"
        /\ \A i \in 1..len(InA), j \in 1..len(InB) :
             (/\ keys_eq(InA.data[i], InB.data[j], options.key_columns)
              /\ \A c \in SharedNonKey : ~py_ne(InA.data[i][c], InB.data[j][c])
                                         \/ (isna(InA.data[i][c]) /\ isna(InB.data[j][c])))
             => \E k \in RowsOfKey(InA.data[i]) : ret.rows[k].Status = "MATCH"
        /\ (file_a = ScenarioA /\ file_b = ScenarioB /\ options.key_columns = <<c_id>>
            /\ options.max_rows = -1)
           => ret.stats = [total |-> 3, matching |-> 1, different |-> 0,
                           only_a |-> 1, only_b |-> 1]

\* What the code returns for the scenario of C1.
C1_ScenarioOutcome ==
    (pc = "done" /\ KeyMode /\ Plain /\ file_a = ScenarioA /\ file_b = ScenarioB
     /\ options.key_columns = <<c_id>> /\ options.max_rows = -1)
    => ret.stats = [total |-> 3, matching |-> 0, different |-> 3, only_a |-> 0, only_b |-> 0]

AllMissing(row) == \A c \in DOMAIN row : isna(row[c])

\* C2: in position mode every aligned pair gets one status: ONLY_A when the
\* A-row has a value and the B-row is all missing, else ONLY_B when the A-row
\* is all missing and the B-row has a value, else DIFF when some column holds
\* two cells that are not both missing and differ, else MATCH; the counters
\* count each pair once.
C2_PositionClassification ==
    (PositionMode /\ pc \in {"compare", "done"} /\ pos > 0) =>
        LET ra == df_a.data[pos]
            rb == df_b.data[pos]
            mismatch == \E c \in Range(df_a.cols) :
                            ~(isna(ra[c]) /\ isna(rb[c])) /\ ra[c] # rb[c]
        IN /\ df_a.index[pos] = df_b.index[pos]
           /\ status \in {"ONLY_A", "ONLY_B", "DIFF", "MATCH"}
           /\ (status = "ONLY_A") <=> (~AllMissing(ra) /\ AllMissing(rb))
           /\ (status = "ONLY_B") <=> (AllMissing(ra) /\ ~AllMissing(rb))
           /\ (status = "DIFF") <=>
                 (~AllMissing(ra) /\ ~AllMissing(rb) /\ mismatch)
           /\ (status = "MATCH") <=> ((AllMissing(ra) <=> AllMissing(rb)) /\ ~mismatch)
           /\ stats.total = pos
           /\ stats.matching + stats.different + stats.only_a + stats.only_b = pos
           /\ keeps(options.show_only_diffs, status)
              => /\ result_rows # <<>>
                 /\ result_rows[Len(result_rows)].Status = status
                 /\ result_rows[Len(result_rows)].Row_Index = df_a.index[pos]

\* A pair classified MATCH although one of its columns is missing on both
\* sides while another holds a value.
C2_Witness ==
    /\ PositionMode /\ pc = "compare" /\ pos > 0 /\ status = "MATCH"
    /\ \E c \in Range(df_a.cols) : isna(df_a.data[pos][c]) /\ isna(df_b.data[pos][c])
    /\ \E c \in Range(df_a.cols) : notna(df_a.data[pos][c])

\* C3: the diff by position of a table against itself is all MATCH:
\* matching = total = |A| and no DIFF, ONLY_A or ONLY_B.
C3_SelfDiff ==
    (pc = "done" /\ PositionMode /\ file_a = file_b) =>
        /\ ret.stats.total = len(InA)
        /\ options.max_rows = -1 => ret.stats.total = Len(file_a.data)
        /\ ret.stats.matching = ret.stats.total
        /\ ret.stats.different = 0
        /\ ret.stats.only_a = 0
        /\ ret.stats.only_b = 0

\* A table with an all-missing row and a partly missing row diffed against
\* itself.
C3_Witness ==
    /\ pc = "done" /\ PositionMode /\ file_a = file_b /\ options.max_rows = -1
    /\ ret.stats.total = 2
    /\ \E i \in 1..Len(file_a.data) : AllMissing(file_a.data[i])
    /\ \E i \in 1..Len(file_a.data) :
         ~AllMissing(file_a.data[i]) /\ \E c \in DOMAIN file_a.data[i] : isna(file_a.data[i][c])

\* C4: swapping the inputs swaps only_a and only_b and leaves matching,
\* different and total as they are, in position mode and in key mode.
C4_SwapSymmetry ==
    (pc = "done") =>
        LET sw == diff_csv_side_by_side(file_b, file_a, options)
        IN /\ sw.err = ""
           /\ ret.stats.only_a = sw.stats.only_b
           /\ ret.stats.only_b = sw.stats.only_a
           /\ ret.stats.matching = sw.stats.matching
           /\ ret.stats.different = sw.stats.different
           /\ ret.stats.total = sw.stats.total

\* A diff of two different tables with rows on one side only and rows that
\* differ.
C4_Witness ==
    /\ pc = "done" /\ file_a # file_b
    /\ ret.stats.only_a > 0 /\ ret.stats.different > 0 /\ ret.stats.only_b = 0

\* The cell of an input at a row label and column, missing when the input
\* has no such row or column.
Original(df, label, col) ==
    IF label \in Range(df.index) /\ col \in Range(df.cols)
    THEN df.data[loc(df, label)][col]
    ELSE NaN

\* C5: normalisation touches the comparison only: the _A and _B cells of the
\* result are the cells of the inputs as read.
C5_ResultKeepsOriginals ==
    (pc = "done" /\ PositionMode) =>
        \A k \in 1..Len(ret.rows) :
            \A c \in Range(df_a.cols) :
                /\ ret.rows[k].cells[c \o suffix_A] = Original(InA, ret.rows[k].Row_Index, c)
                /\ ret.rows[k].cells[c \o suffix_B] = Original(InB, ret.rows[k].Row_Index, c)

\* C6: show_only_diffs returns the non-MATCH rows of the unfiltered result,
\* in order, with the stats of the unfiltered call.
C6_ShowOnlyDiffs ==
    (pc = "done" /\ options.show_only_diffs) =>
        LET full == diff_csv_side_by_side(file_a, file_b,
                        [options EXCEPT !.show_only_diffs = FALSE])
        IN /\ full.err = ""
           /\ ret.rows = SelectSeq(full.rows, LAMBDA r : r.Status # "MATCH")
           /\ \A k \in 1..Len(ret.rows) : ret.rows[k].Status # "MATCH"
           /\ ret.stats = full.stats
           /\ Len(full.rows) = full.stats.total

\* A filtered result that dropped a MATCH row and kept another row.
C6_Witness ==
    /\ pc = "done" /\ options.show_only_diffs
    /\ ret.stats.matching > 0 /\ Len(ret.rows) > 0

\* The file holding the first n rows of a file.
Prefix(file, n) ==
    IF Len(file.data) <= n THEN file
    ELSE [cols |-> file.cols, index |-> SubSeq(file.index, 1, n),
          data |-> SubSeq(file.data, 1, n), exists |-> TRUE]

\* C7: with max_rows = N the position diff has at most N rows and is the
\* diff of the two N-row prefixes.
C7_MaxRowsIsPrefixDiff ==
    (pc = "done" /\ PositionMode /\ options.max_rows >= 0) =>
        LET pre == diff_csv_side_by_side(Prefix(file_a, options.max_rows),
                                         Prefix(file_b, options.max_rows),
                                         [options EXCEPT !.max_rows = -1])
        IN /\ Len(ret.rows) <= options.max_rows
           /\ ret.stats.total <= options.max_rows
           /\ ret.rows = pre.rows
           /\ ret.stats = pre.stats

\* C7 without normalisation.
C7_PlainMaxRows == Plain => C7_MaxRowsIsPrefixDiff

\* Some key column is missing from a table, or no key column is given.
BadKeys ==
    \/ options.key_columns = <<>>
    \/ \E c \in Range(options.key_columns) :
         c \notin Range(file_a.cols) \/ c \notin Range(file_b.cols)

NothingCompared ==
    /\ pc \notin {"compare", "done"}
    /\ pos = 0 /\ status = "" /\ result_rows = <<>> /\ stats = ZeroStats
    /\ ret = NoReturn

\* C8: in key mode a key column absent from A or from B, or an empty key
\* list, makes the call raise before any row is aligned or classified and
\* nothing is returned.
C8_BadKeysRaise ==
    /\ []((KeyMode /\ BadKeys) =>
            /\ NothingCompared
            /\ pc = "raised" =>
                 err = (IF options.key_columns = <<>> THEN "key_columns must be provided"
                        ELSE "Key column not found"))
    /\ [][(KeyMode /\ BadKeys /\ pc = "align")
            => (pc' = "raised" /\ df_a' = df_a /\ df_b' = df_b)]_vars

\* A key-mode call that raised on a key column absent from B only.
C8_Witness ==
    /\ KeyMode /\ pc = "raised" /\ err = "Key column not found"
    /\ Range(options.key_columns) \subseteq Range(file_a.cols)
    /\ len(InA) > 0 /\ len(InB) > 0

\* C28: stats.total is the number of aligned pairs (in position mode the
\* larger of the two row counts after the row cap), every pair is counted
\* under one status, and total = matching + different + only_a + only_b, with
\* and without show_only_diffs.
C28_StatsAddUp ==
    /\ pc \in {"compare", "done"} =>
         /\ stats.total = pos
         /\ stats.total = stats.matching + stats.different + stats.only_a + stats.only_b
         /\ pos > 0 =>
              stats[CASE status = "MATCH" -> "matching" [] status = "DIFF" -> "different"
                      [] status = "ONLY_A" -> "only_a" [] status = "ONLY_B" -> "only_b"] > 0
    /\ pc = "done" =>
         /\ ret.stats = stats
         /\ ret.stats.total = len(df_a) /\ len(df_a) = len(df_b)
         /\ PositionMode =>
              ret.stats.total = (IF len(InA) >= len(InB) THEN len(InA) ELSE len(InB))

\* A filtered diff returned with rows of B alone and matching rows counted.
C28_Witness ==
    /\ pc = "done" /\ options.show_only_diffs
    /\ ret.stats.only_b > 0 /\ ret.stats.matching > 0
    /\ Len(ret.rows) < ret.stats.total

\* ---------------------------------------------------------- union helpers
\* Largest number of input files of one union call.
MaxFiles == 2
\* Largest number of data rows of the inputs of one union call together.
MaxUnionRows == 2
\* Largest chunk size of a chunked union.
MaxChunkSize == 2

\* The dtype of a numeric column: int64 holds no missing value, so a column
\* of numbers with a missing value, or with a float, is float64 and its
\* whole numbers are floats.  The number type shows in the text to_csv
\* writes, which the union engine's output is made of.
infer_dtypes(df) ==
    LET float64(c) == /\ c \notin df.obj
                      /\ \E j \in 1..len(df) : df.data[j][c].k \in {"nan", "none", "flt"}
    IN [df EXCEPT !.data =
          [i \in 1..len(df) |->
             [c \in Range(df.cols) |->
                IF float64(c) /\ df.data[i][c].k = "num"
                THEN Flt(df.data[i][c].n) ELSE df.data[i][c]]]]

\* Index.union(other): the names of both, sorted, when the two differ.
index_union(a_cols, b_cols) == sorted_strs(Range(a_cols) \cup Range(b_cols))

\* The column order of pd.concat(dfs): the first frame's columns, then the
\* new names of each later frame in the order met.
RECURSIVE concat_columns(_)
concat_columns(dfs) ==
    IF dfs = <<>> THEN <<>>
    ELSE LET before == concat_columns(SubSeq(dfs, 1, Len(dfs) - 1))
         IN before \o new_columns(before, dfs[Len(dfs)].cols)

\* A concat that keeps the columns all frames share only (join='inner').
ConcatInner(dfs) ==
    LET cols == SelectSeq(dfs[1].cols, LAMBDA c : \A k \in 1..Len(dfs) : c \in Range(dfs[k].cols))
        RECURSIVE rows(_)
        rows(k) == IF k = 0 THEN <<>>
                   ELSE rows(k - 1) \o reindex_columns(dfs[k], cols).data
    IN [cols |-> cols, index |-> [i \in 1..Len(rows(Len(dfs))) |-> i - 1],
        data |-> rows(Len(dfs)), obj |-> {}]

\* pd.concat(dfs, ignore_index=True): the rows of every frame in turn, over
\* the columns of all of them, with a fresh index.
concat(dfs) ==
    LET cols == concat_columns(dfs)
        RECURSIVE rows(_)
        rows(k) == IF k = 0 THEN <<>>
                   ELSE rows(k - 1) \o reindex_columns(dfs[k], cols).data
    IN infer_dtypes([cols |-> cols, index |-> [i \in 1..Len(rows(Len(dfs))) |-> i - 1],
                     data |-> rows(Len(dfs)),
                     obj |-> UNION {dfs[k].obj : k \in 1..Len(dfs)}])

\* drop_duplicates with keep='last'.
DropKeepLast(df, subset) ==
    LET on == IF subset = <<>> THEN df.cols ELSE subset
        kept == SelectSeq([i \in 1..len(df) |-> i],
                    LAMBDA i : \A j \in (i + 1)..len(df) : ~keys_eq(df.data[i], df.data[j], on))
    IN [cols |-> df.cols, index |-> [k \in 1..Len(kept) |-> df.index[kept[k]]],
        data |-> [k \in 1..Len(kept) |-> df.data[kept[k]]], obj |-> df.obj]

\* DataFrame.drop_duplicates(subset, keep='first'); an empty subset stands
\* for all columns.  Two missing cells count as equal.
drop_duplicates(df, subset) ==
    LET on == IF subset = <<>> THEN df.cols ELSE subset
        kept == SelectSeq([i \in 1..len(df) |-> i],
                    LAMBDA i : \A j \in 1..(i - 1) : ~keys_eq(df.data[i], df.data[j], on))
    IN [cols |-> df.cols, index |-> [k \in 1..Len(kept) |-> df.index[kept[k]]],
        data |-> [k \in 1..Len(kept) |-> df.data[kept[k]]], obj |-> df.obj]

\* The decimal digits, and the text of a small natural number.
Digits == <<"0", "1", "2", "3", "4", "5", "6", "7", "8", "9">>
num_text(n) == <<Digits[n + 1]>>

\* A field of a CSV line: the text of the value; a missing value is written
\* as the empty field, an int as its digits, a float with its decimal.
csv_field(v) ==
    IF isna(v) THEN Str(<<>>)
    ELSE IF v.k = "num" THEN Str(num_text(v.n))
    ELSE IF v.k = "flt" THEN Str(num_text(v.n) \o <<".", "0">>)
    ELSE v

\* The lines DataFrame.to_csv(index=False, header=...) writes.
csv_lines(df, header) ==
    (IF header THEN <<[p \in 1..Len(df.cols) |-> Str(df.cols[p])]>> ELSE <<>>)
    \o [i \in 1..len(df) |-> [p \in 1..Len(df.cols) |-> csv_field(df.data[i][df.cols[p]])]]

\* write_csv(df, path, mode): mode 'w' replaces the file and writes the
\* header, mode 'a' appends the data lines without a header.
write_csv(df, file, mode) ==
    [exists |-> TRUE,
     lines |-> IF mode = "w" THEN csv_lines(df, TRUE)
               ELSE file.lines \o csv_lines(df, FALSE)]

\* A field that pd.read_csv reads as a number: digits, or digits with a
\* decimal.
is_float(field) == Len(field.s) = 3 /\ field.s[1] \in Range(Digits) /\ Tail(field.s) = <<".", "0">>
is_numeric(field) == (Len(field.s) = 1 /\ field.s[1] \in Range(Digits)) \/ is_float(field)

\* What read_csv_chunked(path) returns for a written CSV file: the first line
\* names the columns, an empty field is a missing value, and a column is
\* numeric when every field of it is a number or empty, text otherwise.
parse_csv(file) ==
    LET cols == [p \in 1..Len(file.lines[1]) |-> file.lines[1][p].s]
        rows == Tail(file.lines)
        pos_of(c) == CHOOSE p \in 1..Len(cols) : cols[p] = c
        numeric(c) == \A i \in 1..Len(rows) :
                         rows[i][pos_of(c)].s = <<>> \/ is_numeric(rows[i][pos_of(c)])
        cell(f, c) == IF f.s = <<>> THEN NaN
                      ELSE IF ~numeric(c) THEN f
                      ELSE IF is_float(f)
                           THEN Flt(CHOOSE n \in 0..9 : num_text(n) = <<f.s[1]>>)
                           ELSE Num(CHOOSE n \in 0..9 : num_text(n) = f.s)
    IN infer_dtypes(
         [cols |-> cols, index |-> [i \in 1..Len(rows) |-> i - 1],
          data |-> [i \in 1..Len(rows) |->
                      [c \in Range(cols) |-> cell(rows[i][pos_of(c)], c)]],
          obj |-> {c \in Range(cols) : Len(rows) = 0 \/ ~numeric(c)}])

\* The number of chunks pd.read_csv(path, chunksize=n) yields: the rows n at
\* a time, and one empty chunk for a file without data rows.
chunk_count(file, n) ==
    IF Len(file.data) = 0 THEN 1 ELSE (Len(file.data) + n - 1) \div n

\* Chunk k (from 0) of the file: rows k*n+1 .. (k+1)*n, with their labels,
\* the number type of a column inferred from the rows of the chunk.
chunk(file, n, k) ==
    LET lo == k * n + 1
        hi == IF (k + 1) * n < Len(file.data) THEN (k + 1) * n ELSE Len(file.data)
    IN infer_dtypes([cols |-> file.cols, index |-> SubSeq(file.index, lo, hi),
                     data |-> SubSeq(file.data, lo, hi), obj |-> read_csv(file).obj])

\* ------------------------------------------------------------ union inputs
\* The rows of the union inputs: two rows of one name, one with a missing id.
UnionRows == {Row(Num(1), v_Bob), Row(NaN, v_Bob)}

\* The input files of a given size: over id and name, over name and id, and
\* over id and dept.
UnionFilesOfLen(n) ==
    UNION {{File(<<c_id, c_name>>, c_name, rs), File(<<c_name, c_id>>, c_name, rs),
            File(<<c_id, c_dept>>, c_dept, rs)} : rs \in SeqsOfLen(UnionRows, n)}

RECURSIVE total_rows(_)
total_rows(fs) == IF fs = <<>> THEN 0 ELSE Len(Head(fs).data) + total_rows(Tail(fs))

UnionFiles == UNION {UnionFilesOfLen(n) : n \in 0..MaxUnionRows} \cup {NoFile}

\* The file lists of a call: up to MaxFiles files with up to MaxUnionRows
\* rows in all.
UnionFileLists ==
    {fs \in UNION {[1..n -> UnionFiles] : n \in 0..MaxFiles} :
        total_rows(fs) <= MaxUnionRows}

\* dedupe with dedupe_columns.
DedupeChoices == {<<FALSE, <<>>>>, <<TRUE, <<>>>>, <<TRUE, <<c_id>>>>, <<TRUE, <<c_name>>>>}

\* The output file before the call: absent, or left by an earlier run.
OldOutput == [exists |-> TRUE, lines |-> <<<<Str(<<"o", "l", "d">>)>>>>]
Absent == [exists |-> FALSE, lines |-> <<>>]

\* chunksize: None (-1) or a number of rows.
ChunkSizes == {-1} \cup (1..MaxChunkSize)

\* No diff call in progress.
DiffIdle ==
    /\ file_a = NoFile /\ file_b = NoFile
    /\ options = [compare_by_index |-> TRUE, key_columns |-> <<>>,
                  ignore_whitespace |-> FALSE, case_insensitive |-> FALSE,
                  ignore_column_order |-> FALSE, show_only_diffs |-> FALSE,
                  max_rows |-> -1]
    /\ pc = "idle" /\ df_a = EmptyFrame /\ df_b = EmptyFrame /\ pos = 0
    /\ status = "" /\ result_rows = <<>> /\ stats = ZeroStats /\ err = ""
    /\ ret = NoReturn

InitUnion ==
    /\ DiffIdle
    /\ JoinIdle
    /\ ExcelIdle
    /\ u_fn \in {"union_csvs", "union_multiple_csvs"}
    /\ u_files \in UnionFileLists
    /\ u_fn = "union_csvs" => Len(u_files) = 2
    /\ \E d \in DedupeChoices : u_dedupe = d[1] /\ u_dedupe_columns = d[2]
    /\ u_pc = "validate"
    /\ u_dfs = <<>>
    /\ df_union = EmptyFrame
    /\ u_err = ""
    /\ out_file \in {Absent, OldOutput}
    /\ u_chunksize \in ChunkSizes
    /\ u_fn = "union_csvs" => u_chunksize = -1
    /\ file_idx = 0 /\ chunk_idx = 0 /\ first_file = TRUE

\* validate_file_exists passes.
ValidateNothing(file) == TRUE
validate_file_exists(file) == file.exists

\* ------------------------------------------------------------- union_csvs
\* Lines 41-42: validate_file_exists on file_a, then on file_b.
CsvsValidate ==
    /\ u_fn = "union_csvs" /\ u_pc = "validate"
    /\ IF \E k \in 1..2 : ~validate_file_exists(u_files[k])
       THEN u_pc' = "raised" /\ u_err' = "File not found"
       ELSE u_pc' = "read" /\ u_err' = u_err
    /\ UNCHANGED <<u_fn, u_files, u_dedupe, u_dedupe_columns, u_dfs, df_union, out_file>>
    /\ UNCHANGED <<cvars, not_union>>

\* Lines 46-48.
CsvsRead ==
    /\ u_fn = "union_csvs" /\ u_pc = "read"
    /\ u_dfs' = <<infer_dtypes(read_csv(u_files[1])), infer_dtypes(read_csv(u_files[2]))>>
    /\ u_pc' = "reconcile"
    /\ UNCHANGED <<u_fn, u_files, u_dedupe, u_dedupe_columns, df_union, u_err, out_file>>
    /\ UNCHANGED <<cvars, not_union>>

\* Lines 50-56: frames over different column sets are reindexed to the
\* union of the two column indexes.
CsvsReconcile ==
    /\ u_fn = "union_csvs" /\ u_pc = "reconcile"
    /\ IF Range(u_dfs[1].cols) # Range(u_dfs[2].cols)
       THEN LET all_columns == index_union(u_dfs[1].cols, u_dfs[2].cols)
            IN u_dfs' = <<reindex_columns(u_dfs[1], all_columns),
                          reindex_columns(u_dfs[2], all_columns)>>
       ELSE u_dfs' = u_dfs
    /\ u_pc' = "concat"
    /\ UNCHANGED <<u_fn, u_files, u_dedupe, u_dedupe_columns, df_union, u_err, out_file>>
    /\ UNCHANGED <<cvars, not_union>>

\* Line 59.
CsvsConcat ==
    /\ u_fn = "union_csvs" /\ u_pc = "concat"
    /\ df_union' = concat(u_dfs)
    /\ u_pc' = "dedupe"
    /\ UNCHANGED <<u_fn, u_files, u_dedupe, u_dedupe_columns, u_dfs, u_err, out_file>>
    /\ UNCHANGED <<cvars, not_union>>

\* Lines 62-70; drop_duplicates raises KeyError on a subset column the frame
\* does not have.
CsvsDedupe ==
    /\ u_fn = "union_csvs" /\ u_pc = "dedupe"
    /\ IF ~u_dedupe THEN u_pc' = "write" /\ UNCHANGED <<df_union, u_err>>
       ELSE IF ~(Range(u_dedupe_columns) \subseteq Range(df_union.cols))
       THEN u_pc' = "raised" /\ u_err' = "KeyError" /\ UNCHANGED df_union
       ELSE /\ df_union' = drop_duplicates(df_union, u_dedupe_columns)
            /\ u_pc' = "write" /\ UNCHANGED u_err
    /\ UNCHANGED <<u_fn, u_files, u_dedupe, u_dedupe_columns, u_dfs, out_file>>
    /\ UNCHANGED <<cvars, not_union>>

\* Lines 72-74.
CsvsWrite ==
    /\ u_fn = "union_csvs" /\ u_pc = "write"
    /\ out_file' = write_csv(df_union, out_file, "w")
    /\ u_pc' = "done"
    /\ UNCHANGED <<u_fn, u_files, u_dedupe, u_dedupe_columns, u_dfs, df_union, u_err>>
    /\ UNCHANGED <<cvars, not_union>>

\* ---------------------------------------------------- union_multiple_csvs
\* Lines 100-109: an empty list raises ValueError, a missing file raises
\* FileNotFoundError; the output directory is created.
MultipleValidate ==
    /\ u_fn = "union_multiple_csvs" /\ u_pc = "validate"
    /\ IF u_files = <<>>
       THEN u_pc' = "raised" /\ u_err' = "files list cannot be empty"
       ELSE IF \E k \in 1..Len(u_files) : ~validate_file_exists(u_files[k])
       THEN u_pc' = "raised" /\ u_err' = "File not found"
       ELSE /\ u_pc' = (IF u_chunksize = -1 THEN "read" ELSE "chunks")
            /\ u_err' = u_err
    /\ UNCHANGED <<u_fn, u_files, u_dedupe, u_dedupe_columns, u_dfs, df_union, out_file>>
    /\ UNCHANGED <<cvars, not_union>>

\* One pass of the loop of lines 116-122.
MultipleRead ==
    /\ u_fn = "union_multiple_csvs" /\ u_pc = "read"
    /\ Len(u_dfs) < Len(u_files)
    /\ u_dfs' = Append(u_dfs, infer_dtypes(read_csv(u_files[Len(u_dfs) + 1])))
    /\ UNCHANGED <<u_fn, u_files, u_dedupe, u_dedupe_columns, u_pc, df_union, u_err, out_file>>
    /\ UNCHANGED <<cvars, not_union>>

\* Lines 124-126.
MultipleConcat ==
    /\ u_fn = "union_multiple_csvs" /\ u_pc = "read"
    /\ Len(u_dfs) = Len(u_files)
    /\ df_union' = concat(u_dfs)
    /\ u_pc' = "dedupe"
    /\ UNCHANGED <<u_fn, u_files, u_dedupe, u_dedupe_columns, u_dfs, u_err, out_file>>
    /\ UNCHANGED <<cvars, not_union>>

\* Lines 128-136.
MultipleDedupe ==
    /\ u_fn = "union_multiple_csvs" /\ u_pc = "dedupe"
    /\ IF ~u_dedupe THEN u_pc' = "write" /\ UNCHANGED <<df_union, u_err>>
       ELSE IF ~(Range(u_dedupe_columns) \subseteq Range(df_union.cols))
       THEN u_pc' = "raised" /\ u_err' = "KeyError" /\ UNCHANGED df_union
       ELSE /\ df_union' = drop_duplicates(df_union, u_dedupe_columns)
            /\ u_pc' = "write" /\ UNCHANGED u_err
    /\ UNCHANGED <<u_fn, u_files, u_dedupe, u_dedupe_columns, u_dfs, out_file>>
    /\ UNCHANGED <<cvars, not_union>>

\* Lines 138-140.
MultipleWrite ==
    /\ u_fn = "union_multiple_csvs" /\ u_pc = "write"
    /\ out_file' = write_csv(df_union, out_file, "w")
    /\ u_pc' = "done"
    /\ UNCHANGED <<u_fn, u_files, u_dedupe, u_dedupe_columns, u_dfs, df_union, u_err>>
    /\ UNCHANGED <<cvars, not_union>>

\* --------------------------------- union_multiple_csvs, chunked processing
\* One pass of the inner loop of lines 148-161: the next chunk of the current
\* file is written, with the header when it is the first chunk of the first
\* file and appended without a header otherwise.
ChunkedWrite ==
    /\ u_fn = "union_multiple_csvs" /\ u_pc = "chunks"
    /\ file_idx < Len(u_files)
    /\ LET file == u_files[file_idx + 1]
           mode == IF first_file /\ chunk_idx = 0 THEN "w" ELSE "a"
       IN /\ out_file' = write_csv(chunk(file, u_chunksize, chunk_idx), out_file, mode)
          /\ IF chunk_idx + 1 < chunk_count(file, u_chunksize)
             THEN chunk_idx' = chunk_idx + 1 /\ file_idx' = file_idx
             ELSE chunk_idx' = 0 /\ file_idx' = file_idx + 1
    /\ first_file' = FALSE
    /\ UNCHANGED <<u_fn, u_files, u_dedupe, u_dedupe_columns, u_pc, u_dfs, df_union,
                   u_err, u_chunksize>>
    /\ UNCHANGED not_union

\* Lines 163-167 and 181: after the last file the call returns, or goes on
\* to the deduplication pass.
ChunkedEnd ==
    /\ u_fn = "union_multiple_csvs" /\ u_pc = "chunks"
    /\ file_idx = Len(u_files)
    /\ u_pc' = (IF u_dedupe THEN "reload" ELSE "done")
    /\ UNCHANGED <<u_fn, u_files, u_dedupe, u_dedupe_columns, u_dfs, df_union, u_err,
                   out_file, cvars>>
    /\ UNCHANGED not_union

\* Line 169: the output written so far is read back.
ChunkedReload ==
    /\ u_fn = "union_multiple_csvs" /\ u_pc = "reload"
    /\ df_union' = parse_csv(out_file)
    /\ u_pc' = "drop"
    /\ UNCHANGED <<u_fn, u_files, u_dedupe, u_dedupe_columns, u_dfs, u_err, out_file, cvars>>
    /\ UNCHANGED not_union

\* Lines 172-175.
ChunkedDrop ==
    /\ u_fn = "union_multiple_csvs" /\ u_pc = "drop"
    /\ IF ~(Range(u_dedupe_columns) \subseteq Range(df_union.cols))
       THEN u_pc' = "raised" /\ u_err' = "KeyError" /\ UNCHANGED df_union
       ELSE /\ df_union' = drop_duplicates(df_union, u_dedupe_columns)
            /\ u_pc' = "rewrite" /\ UNCHANGED u_err
    /\ UNCHANGED <<u_fn, u_files, u_dedupe, u_dedupe_columns, u_dfs, out_file, cvars>>
    /\ UNCHANGED not_union

\* Line 179, first half: to_csv opens the output path itself in mode 'w',
\* which empties the file.
ChunkedRewriteOpen ==
    /\ u_fn = "union_multiple_csvs" /\ u_pc = "rewrite"
    /\ out_file' = [exists |-> TRUE, lines |-> <<>>]
    /\ u_pc' = "flush"
    /\ UNCHANGED <<u_fn, u_files, u_dedupe, u_dedupe_columns, u_dfs, df_union, u_err, cvars>>
    /\ UNCHANGED not_union

\* Line 179, second half: the deduplicated lines are written and the file
\* is closed.
ChunkedRewriteFlush ==
    /\ u_fn = "union_multiple_csvs" /\ u_pc = "flush"
    /\ out_file' = write_csv(df_union, out_file, "w")
    /\ u_pc' = "done"
    /\ UNCHANGED <<u_fn, u_files, u_dedupe, u_dedupe_columns, u_dfs, df_union, u_err, cvars>>
    /\ UNCHANGED not_union

\* The deduplication pass of lines 165-179 is interrupted (the process is
\* stopped, or the read or the write fails): nothing in it restores the file.
ChunkedInterrupt ==
    /\ u_fn = "union_multiple_csvs" /\ u_pc \in {"reload", "drop", "rewrite", "flush"}
    /\ u_pc' = "raised" /\ u_err' = "interrupted"
    /\ UNCHANGED <<u_fn, u_files, u_dedupe, u_dedupe_columns, u_dfs, df_union, out_file,
                   cvars>>
    /\ UNCHANGED not_union

NextUnion ==
    \/ CsvsValidate \/ CsvsRead \/ CsvsReconcile \/ CsvsConcat \/ CsvsDedupe \/ CsvsWrite
    \/ MultipleValidate \/ MultipleRead \/ MultipleConcat \/ MultipleDedupe \/ MultipleWrite
    \/ ChunkedWrite \/ ChunkedEnd \/ ChunkedReload \/ ChunkedDrop
    \/ ChunkedRewriteOpen \/ ChunkedRewriteFlush \/ ChunkedInterrupt

SpecUnion == InitUnion /\ [][NextUnion]_vars

\* ------------------------------------------------------ union properties
\* The column names of the header line of the output file.
OutColumns == [p \in 1..Len(out_file.lines[1]) |-> out_file.lines[1][p].s]

\* A field with the decimal of a float left out: 1.0 reads 1.
plain(field) == IF is_float(field) THEN Str(<<field.s[1]>>) ELSE field
plain_lines(lines) == [i \in DOMAIN lines |-> [p \in DOMAIN lines[i] |-> plain(lines[i][p])]]

\* The data lines of the output file, numbers without their decimals.
OutRows == plain_lines(Tail(out_file.lines))

\* The line that holds row r of an input over columns fcols, under the
\* header cols: its own cells under their names, empty fields elsewhere.
LineOf(r, fcols, cols) ==
    [p \in 1..Len(cols) |->
        IF cols[p] \in Range(fcols) THEN csv_field(r[cols[p]]) ELSE Str(<<>>)]

\* The lines of all rows of the input files, file after file, under cols.
RECURSIVE LinesOf(_, _)
LinesOf(fs, cols) ==
    IF fs = <<>> THEN <<>>
    ELSE [i \in 1..Len(Head(fs).data) |-> LineOf(Head(fs).data[i], Head(fs).cols, cols)]
         \o LinesOf(Tail(fs), cols)

AllInputColumns == UNION {Range(u_files[k].cols) : k \in 1..Len(u_files)}

ColumnSetsDiffer ==
    \E j, k \in 1..Len(u_files) : Range(u_files[j].cols) # Range(u_files[k].cols)

\* The first table's columns followed by the new names of later tables in
\* the order met.
RECURSIVE EncounterOrder(_)
EncounterOrder(fs) ==
    IF fs = <<>> THEN <<>>
    ELSE LET before == EncounterOrder(SubSeq(fs, 1, Len(fs) - 1))
         IN before \o SelectSeq(fs[Len(fs)].cols, LAMBDA c : c \notin Range(before))

\* C10: for inputs over different column sets the output columns are the
\* first table's columns followed by the new names of later tables in the
\* order met, and each row is empty in the columns its table lacked, for
\* union_csvs and for union_multiple_csvs.
C10_EncounterOrderColumns ==
    (u_pc = "done" /\ ~u_dedupe /\ ColumnSetsDiffer) =>
        /\ OutColumns = EncounterOrder(u_files)
        /\ OutRows = LinesOf(u_files, EncounterOrder(u_files))

\* C10 for union_multiple_csvs alone.
C10_MultipleOnly ==
    (u_fn = "union_multiple_csvs" /\ u_chunksize = -1) => C10_EncounterOrderColumns

\* The inputs do not all have the same column list.
ColumnListsDiffer == \E j, k \in 1..Len(u_files) : u_files[j].cols # u_files[k].cols

\* C11: a chunked union never drops or mislabels a column: the output header
\* holds the union of the inputs' column names and every value of every input
\* row stands under the name it had in its file, with empty fields for the
\* columns the file lacked.
C11_ChunkedKeepsColumns ==
    (u_pc = "done" /\ ~u_dedupe /\ u_chunksize # -1) =>
        /\ Range(OutColumns) = AllInputColumns
        /\ OutRows = LinesOf(u_files, OutColumns)

\* C11 for inputs that all have the same column list.
C11_SameColumnLists == ColumnListsDiffer \/ C11_ChunkedKeepsColumns

\* The rows of the file list as each file holds them, in the file's own
\* column order.
RECURSIVE OwnLines(_)
OwnLines(fs) ==
    IF fs = <<>> THEN <<>>
    ELSE LinesOf(<<Head(fs)>>, Head(fs).cols) \o OwnLines(Tail(fs))

\* The lines the call writes when dedupe is off, numbers without their
\* decimals.
Undeduped ==
    IF u_chunksize # -1
    THEN <<[p \in 1..Len(u_files[1].cols) |-> Str(u_files[1].cols[p])]>> \o OwnLines(u_files)
    ELSE LET dfs == [k \in 1..Len(u_files) |-> read_csv(u_files[k])]
             all == index_union(dfs[1].cols, dfs[2].cols)
         IN plain_lines(
              IF u_fn = "union_csvs" /\ Range(dfs[1].cols) # Range(dfs[2].cols)
              THEN csv_lines(concat(<<reindex_columns(dfs[1], all),
                                      reindex_columns(dfs[2], all)>>), TRUE)
              ELSE csv_lines(concat(dfs), TRUE))

\* Positions of the deduplication key in the header: the dedupe_columns, or
\* every column.
KeyPositions(header) ==
    IF u_dedupe_columns = <<>> THEN 1..Len(header)
    ELSE {p \in 1..Len(header) : header[p].s \in Range(u_dedupe_columns)}

\* Two lines have the same key: the same text in every key field (two empty
\* fields, that is two missing values, are the same).
SameKey(x, y, K) == \A p \in K : x[p] = y[p]

\* The first line of each key, in order.
FirstOccurrences(rows, K) ==
    LET firsts == SelectSeq([i \in 1..Len(rows) |-> i],
                      LAMBDA i : \A j \in 1..(i - 1) : ~SameKey(rows[i], rows[j], K))
    IN [k \in 1..Len(firsts) |-> rows[firsts[k]]]

\* C12: a union with dedupe writes the first occurrence of each distinct key
\* of the non-deduplicated concatenation, in order: no two rows share a key,
\* every key is there, and there are at most as many rows.
C12_DedupeFirstOccurrences ==
    (u_pc = "done" /\ u_dedupe) =>
        LET K == KeyPositions(Undeduped[1])
            before == Tail(Undeduped)
        IN /\ out_file.lines[1] = Undeduped[1]
           /\ OutRows = FirstOccurrences(before, K)
           /\ \A i, j \in 1..Len(OutRows) : i # j => ~SameKey(OutRows[i], OutRows[j], K)
           /\ \A i \in 1..Len(before) : \E j \in 1..Len(OutRows) : SameKey(before[i], OutRows[j], K)
           /\ Len(OutRows) <= Len(before)

\* A finished union with dedupe on one column that dropped a later row which
\* differs from the first of its key in another column.
C12_Witness ==
    /\ u_pc = "done" /\ u_dedupe /\ u_dedupe_columns # <<>>
    /\ Len(OutRows) < Len(Tail(Undeduped))
    /\ \E i \in 1..Len(Tail(Undeduped)) : Tail(Undeduped)[i] \notin Range(OutRows)

\* The deduplication pass of a chunked union is under way, or was
\* interrupted.
InDedupPass ==
    \/ u_pc \in {"reload", "drop", "rewrite", "flush"}
    \/ u_pc = "raised" /\ u_err \in {"interrupted", "KeyError"} /\ u_chunksize # -1

\* C13: while the deduplication pass of a chunked union runs, and after it
\* is interrupted or fails, the output file holds the whole content written
\* before the pass.
C13_DedupPassKeepsOutput ==
    InDedupPass => plain_lines(out_file.lines) = Undeduped

\* C13 up to the point where the output is opened for rewriting.
C13_BeforeRewrite ==
    (InDedupPass /\ out_file.lines # <<>>) => plain_lines(out_file.lines) = Undeduped

\* The lines the non-chunked call writes for the same files and the same
\* dedupe arguments.
NonChunkedOutput ==
    LET df == concat([k \in 1..Len(u_files) |-> infer_dtypes(read_csv(u_files[k]))])
    IN csv_lines(IF u_dedupe THEN drop_duplicates(df, u_dedupe_columns) ELSE df, TRUE)

\* The number of rows of the inputs the chunk loop has written so far.
RowsWritten ==
    total_rows(SubSeq(u_files, 1, file_idx))
    + (IF file_idx < Len(u_files) THEN chunk_idx * u_chunksize ELSE 0)

\* C29: for inputs with one column list a chunked union_multiple_csvs writes
\* what the non-chunked call writes for the same dedupe arguments: the header
\* once, with the first chunk, every later chunk appended below it in order,
\* and with dedupe the duplicates across chunks and files removed.
C29_ChunkedEqualsNonChunked ==
    (u_chunksize # -1 /\ ~ColumnListsDiffer) =>
        /\ (u_pc = "chunks" /\ ~first_file) =>
             /\ out_file.lines[1] = Undeduped[1]
             /\ OutRows = SubSeq(Tail(Undeduped), 1, RowsWritten)
        /\ u_pc = "done" => out_file.lines = NonChunkedOutput

\* C29 with the numbers compared by value, 1 and 1.0 being the same.
C29_SameValues ==
    (u_chunksize # -1 /\ ~ColumnListsDiffer /\ u_pc = "done") =>
        plain_lines(out_file.lines) = plain_lines(NonChunkedOutput)

\* C29 for unions with dedupe, whose second pass reads the whole output.
C29_WithDedupe == ~u_dedupe \/ C29_ChunkedEqualsNonChunked

\* The call cannot pass validation: an empty file list, or a path that does
\* not exist.
BadInputs ==
    \/ u_fn = "union_multiple_csvs" /\ u_files = <<>>
    \/ u_fn \in {"union_csvs", "union_multiple_csvs"}
         /\ \E k \in 1..Len(u_files) : ~u_files[k].exists

\* C14: an empty file list and a path that does not exist make the call
\* raise before any input is read, and the output file is neither created
\* nor modified.
C14_BadInputsRaise ==
    /\ [](BadInputs =>
            /\ u_pc \in {"validate", "raised"}
            /\ u_dfs = <<>> /\ df_union = EmptyFrame
            /\ u_pc = "raised" =>
                 u_err = (IF u_files = <<>> THEN "files list cannot be empty"
                          ELSE "File not found"))
    /\ [][BadInputs => (out_file' = out_file /\ u_pc' = "raised")]_vars

\* A call whose first path exists and whose second does not has raised, and
\* the file an earlier run left is still there.
C14_Witness ==
    /\ u_pc = "raised" /\ u_err = "File not found" /\ Len(u_files) = 2
    /\ u_files[1].exists /\ Len(u_files[1].data) > 0 /\ ~u_files[2].exists
    /\ out_file = OldOutput

\* ----------------------------------------------------------- join helpers
\* Largest number of data rows of the two inputs of a join together.
MaxJoinRows == 3
\* Largest number of files of a sequential join.
MaxJoinFiles == 3
\* Largest number of data rows of the files of a sequential join together.
MaxSeqRows == 2

\* The suffixes pandas gives to non-key columns both sides have.
suffix_x == <<"_", "x">>
suffix_y == <<"_", "y">>

\* The join kinds join_csvs accepts, with 'full' among them.
ValidHowWithFull == {"inner", "left", "right", "outer", "cross", "full"}

\* valid_how (line 58)
valid_how == {"inner", "left", "right", "outer", "cross"}

\* A key check that looks at the left table only.
MissingKeyLeftOnly(left, right, on_list) ==
    IF \E k \in 1..Len(on_list) : on_list[k] \notin Range(left.cols)
    THEN KeyNotFound(on_list[CHOOSE k \in 1..Len(on_list) :
                               /\ on_list[k] \notin Range(left.cols)
                               /\ \A m \in 1..(k - 1) : on_list[m] \in Range(left.cols)],
                     "left")
    ELSE NoError

\* The loop of lines 76-80 (136-140 for sheets): the error for the first key
\* that is not a column of the left table or, failing that, of the right
\* table; NoError when every key is a column of both.
RECURSIVE join_key_error(_, _, _)
join_key_error(left, right, on_list) ==
    IF on_list = <<>> THEN NoError
    ELSE IF Head(on_list) \notin Range(left.cols) THEN KeyNotFound(Head(on_list), "left")
    ELSE IF Head(on_list) \notin Range(right.cols) THEN KeyNotFound(Head(on_list), "right")
    ELSE join_key_error(left, right, Tail(on_list))

\* A key check of the sequential join that finds every key.
NextKeyAlwaysFound(df_next, on_list) == NoError

\* The loop of lines 226-228: the keys are looked up in the next file only.
RECURSIVE next_key_error(_, _)
next_key_error(df_next, on_list) ==
    IF on_list = <<>> THEN NoError
    ELSE IF Head(on_list) \notin Range(df_next.cols) THEN KeyNotFound(Head(on_list), "next")
    ELSE next_key_error(df_next, Tail(on_list))

\* Row pairs that match on the first key column only.
MatchFirstKeyOnly(left, right, on) ==
    {<<i, j>> \in (1..len(left)) \X (1..len(right)) :
        keys_eq(left.data[i], right.data[j], <<on[1]>>)}

\* The row pairs a merge on the key columns matches: equal on every key
\* column, a missing key value matching a missing key value.
match_pairs(left, right, on) ==
    {<<i, j>> \in (1..len(left)) \X (1..len(right)) :
        keys_eq(left.data[i], right.data[j], on)}

\* The pairs in order of the row of one side, then of the other.
RECURSIVE pairs_in_order(_, _)
pairs_in_order(P, side) ==
    IF P = {} THEN <<>>
    ELSE LET m == CHOOSE p \in P : \A q \in P \ {p} :
                      \/ p[side] < q[side]
                      \/ p[side] = q[side] /\ p[3 - side] < q[3 - side]
         IN <<m>> \o pairs_in_order(P \ {m}, side)

\* A join that keeps matched pairs only, whatever its kind.
JoinPairsMatchedOnly(left, right, on, how) ==
    pairs_in_order(IF how = "cross" THEN (1..len(left)) \X (1..len(right))
                   ELSE match_pairs(left, right, on), 1)

\* The rows of DataFrame.merge as pairs <<left row, right row>>, 0 standing
\* for no row: inner and left in left order, right in right order, outer
\* sorted by key, cross every left row with every right row.
join_pairs(left, right, on, how) ==
    LET matched == match_pairs(left, right, on)
        left_alone == {<<i, 0>> : i \in {i \in 1..len(left) : \A p \in matched : p[1] # i}}
        right_alone == {<<0, j>> : j \in {j \in 1..len(right) : \A p \in matched : p[2] # j}}
    IN CASE how = "inner" -> pairs_in_order(matched, 1)
         [] how = "left" -> pairs_in_order(matched \cup left_alone, 1)
         [] how = "right" -> pairs_in_order(matched \cup right_alone, 2)
         [] how = "outer" -> sorted_pairs(left, right, on, outer_pairs(left, right, on))
         [] how = "cross" -> pairs_in_order((1..len(left)) \X (1..len(right)), 1)

\* The key columns of the merge: none for a cross join.
merge_keys(on, how) == IF how = "cross" THEN <<>> ELSE on

\* The column names of the merged frame: the left columns, then the right
\* columns that are not keys, a name both sides have suffixed _x and _y.
merge_columns(left, right, keys) ==
    [i \in 1..Len(left.cols) |-> merged_name(left.cols[i], right.cols, keys, suffix_x)]
    \o LET rcols == SelectSeq(right.cols, LAMBDA c : c \notin Range(keys))
       IN [i \in 1..Len(rcols) |-> merged_name(rcols[i], left.cols, keys, suffix_y)]

\* What DataFrame.merge raises instead of returning: MergeError for an
\* unknown kind, KeyError for a key that is not a column of both frames,
\* ValueError for a key that is text on one side and numeric on the other
\* (unless exactly one side has no rows), MergeError for suffixes that give
\* two columns one name.
merge_error(left, right, on, how) ==
    LET keys == merge_keys(on, how)
        cols == merge_columns(left, right, keys)
    IN IF how \notin valid_how THEN Error("MergeError")
       ELSE IF \E k \in Range(keys) : k \notin Range(left.cols) \/ k \notin Range(right.cols)
       THEN Error("KeyError")
       ELSE IF /\ (len(left) = 0) = (len(right) = 0)
               /\ \E k \in Range(keys) : (k \in left.obj) # (k \in right.obj)
       THEN Error("ValueError: merge on object and numeric")
       ELSE IF Cardinality(Range(cols)) # Len(cols) THEN Error("MergeError")
       ELSE NoError

\* left.merge(right, on=on, how=how), and left.merge(right, how='cross').
\* A key column keeps the dtype of the left column unless the result has
\* rows of the right table alone, and then takes the common dtype.
merge(left, right, on, how) ==
    LET keys == merge_keys(on, how)
        cols == merge_columns(left, right, keys)
        nl == Len(left.cols)
        rcols == SelectSeq(right.cols, LAMBDA c : c \notin Range(keys))
        pairs == join_pairs(left, right, on, how)
        from_left(q) == q <= nl
        source(q) == IF from_left(q) THEN left.cols[q] ELSE rcols[q - nl]
        cell(p, q) ==
            IF source(q) \in Range(keys) THEN pair_key_row(left, right, p)[source(q)]
            ELSE IF from_left(q) THEN (IF p[1] = 0 THEN NaN ELSE left.data[p[1]][source(q)])
            ELSE (IF p[2] = 0 THEN NaN ELSE right.data[p[2]][source(q)])
        pos_of(c) == CHOOSE q \in 1..Len(cols) : cols[q] = c
    IN [cols |-> cols,
        index |-> [k \in 1..Len(pairs) |-> k - 1],
        data |-> [k \in 1..Len(pairs) |-> [c \in Range(cols) |-> cell(pairs[k], pos_of(c))]],
        obj |-> {c \in Range(cols) :
                   LET q == pos_of(c)
                       right_alone == {k \in 1..Len(pairs) : pairs[k][1] = 0}
                   IN IF ~from_left(q) THEN source(q) \in right.obj
                      ELSE IF source(q) \notin Range(keys) \/ right_alone = {}
                      THEN source(q) \in left.obj
                      ELSE IF right_alone = 1..Len(pairs) THEN source(q) \in right.obj
                      ELSE source(q) \in left.obj \/ source(q) \in right.obj}]

\* ------------------------------------------------------------ join inputs
\* The rows of the join inputs: two rows with the same id, one of them
\* without a name, and a row without an id.
JoinRows == {Row(Num(1), v_Bob), Row(Num(1), NaN), Row(NaN, v_Bob)}

\* The rows of the inputs of a sequential join.
SeqRows == {Row(Num(1), v_Bob), Row(NaN, v_Bob)}

\* The tables of n rows: over id and name, over id and dept, and over name
\* alone.
JoinTablesOfLen(n) ==
    UNION {{File(<<c_id, c_name>>, c_name, rs), File(<<c_id, c_dept>>, c_dept, rs),
            File(<<c_name>>, c_name, rs)} : rs \in SeqsOfLen(JoinRows, n)}

\* Pairs of tables with at most total rows together.
TablePairs(total) ==
    UNION {JoinTablesOfLen(p[1]) \X JoinTablesOfLen(p[2]) :
             p \in {q \in (0..total) \X (0..total) : q[1] + q[2] <= total}}

\* The inputs of join_csvs: two tables, or a path that does not exist.
JoinFilePairs ==
    TablePairs(MaxJoinRows)
    \cup {<<NoFile, t>> : t \in JoinTablesOfLen(1)}
    \cup {<<t, NoFile>> : t \in JoinTablesOfLen(1)}

\* The inputs of join_excel_sheets: two sheets of one workbook, or a
\* workbook that does not exist.
SheetPairs == TablePairs(MaxSeqRows) \cup {<<NoFile, NoFile>>}

SeqTables ==
    UNION {UNION {{File(<<c_id, c_name>>, c_name, rs), File(<<c_name>>, c_name, rs)} :
                    rs \in SeqsOfLen(SeqRows, n)} : n \in 0..MaxSeqRows}
    \cup {NoFile}

\* One table more than MaxJoinFiles, all over id and name with one row.
SharedNameFiles ==
    [k \in 1..(MaxJoinFiles + 1) |-> File(<<c_id, c_name>>, c_name, <<Row(Num(1), v_Bob)>>)]

\* The file lists of join_multiple_csvs_sequential.
SeqFileLists ==
    {fs \in UNION {[1..n -> SeqTables] : n \in 0..MaxJoinFiles} :
        total_rows(fs) <= MaxSeqRows}
    \cup {SharedNameFiles}

OnChoices == {<<c_id>>, <<c_name>>, <<c_id, c_name>>}
HowChoices == valid_how \cup {"full"}

InitJoin ==
    /\ DiffIdle
    /\ UnionIdle
    /\ ExcelIdle
    /\ j_fn \in {"join_csvs", "join_excel_sheets", "join_multiple_csvs_sequential"}
    /\ j_files \in (CASE j_fn = "join_csvs" -> JoinFilePairs
                      [] j_fn = "join_excel_sheets" -> SheetPairs
                      [] OTHER -> SeqFileLists)
    /\ j_on \in (IF j_fn = "join_multiple_csvs_sequential"
                  THEN {<<c_id>>, <<c_name>>} ELSE OnChoices)
    /\ j_how \in (CASE j_fn = "join_csvs" -> HowChoices
                    [] j_fn = "join_excel_sheets" -> {"inner", "left", "cross", "full"}
                    [] OTHER -> {"inner", "left", "cross"})
    /\ j_pc = "start"
    /\ df_left = EmptyFrame /\ df_right = EmptyFrame /\ j_idx = 0
    /\ df_result = EmptyFrame /\ j_err = NoError /\ j_ret = NotReturned
    /\ j_out = Absent

\* --------------------------------------------------------------- join_csvs
\* Lines 54-60: both paths are checked, then the join kind.
JoinValidate ==
    /\ j_fn = "join_csvs" /\ j_pc = "start"
    /\ IF \E k \in 1..2 : ~validate_file_exists(j_files[k])
       THEN j_pc' = "raised" /\ j_err' = Error("File not found")
       ELSE IF j_how \notin valid_how
       THEN j_pc' = "raised" /\ j_err' = Error("'how' must be one of")
       ELSE j_pc' = "read" /\ j_err' = j_err
    /\ UNCHANGED <<j_fn, j_files, j_on, j_how, df_left, df_right, j_idx, df_result,
                   j_ret, j_out>>
    /\ UNCHANGED not_join

\* Lines 69-71.
JoinRead ==
    /\ j_fn = "join_csvs" /\ j_pc = "read"
    /\ df_left' = read_csv(j_files[1])
    /\ df_right' = read_csv(j_files[2])
    /\ j_pc' = "keys"
    /\ UNCHANGED <<j_fn, j_files, j_on, j_how, j_idx, df_result, j_err, j_ret, j_out>>
    /\ UNCHANGED not_join

\* Lines 73-80: the keys are looked up whatever the join kind.
JoinCheckKeys ==
    /\ j_fn = "join_csvs" /\ j_pc = "keys"
    /\ LET e == join_key_error(df_left, df_right, j_on)
       IN IF e # NoError
          THEN j_pc' = "raised" /\ j_err' = e
          ELSE j_pc' = "merge" /\ j_err' = j_err
    /\ UNCHANGED <<j_fn, j_files, j_on, j_how, df_left, df_right, j_idx, df_result,
                   j_ret, j_out>>
    /\ UNCHANGED not_join

\* Lines 82-91.
JoinMerge ==
    /\ j_fn = "join_csvs" /\ j_pc = "merge"
    /\ LET e == merge_error(df_left, df_right, j_on, j_how)
       IN IF e # NoError
          THEN j_pc' = "raised" /\ j_err' = e /\ UNCHANGED df_result
          ELSE /\ df_result' = merge(df_left, df_right, j_on, j_how)
               /\ j_pc' = "write" /\ j_err' = j_err
    /\ UNCHANGED <<j_fn, j_files, j_on, j_how, df_left, df_right, j_idx, j_ret, j_out>>
    /\ UNCHANGED not_join

\* Lines 93-98, for a call that names an output file.
JoinReturn ==
    /\ j_fn = "join_csvs" /\ j_pc = "write"
    /\ j_out' = write_csv(df_result, j_out, "w")
    /\ j_ret' = [returned |-> TRUE, df |-> df_result]
    /\ j_pc' = "done"
    /\ UNCHANGED <<j_fn, j_files, j_on, j_how, df_left, df_right, j_idx, df_result, j_err>>
    /\ UNCHANGED not_join

\* ------------------------------------------------------- join_excel_sheets
\* Line 125.
SheetsValidate ==
    /\ j_fn = "join_excel_sheets" /\ j_pc = "start"
    /\ IF ~validate_file_exists(j_files[1])
       THEN j_pc' = "raised" /\ j_err' = Error("File not found")
       ELSE j_pc' = "read" /\ j_err' = j_err
    /\ UNCHANGED <<j_fn, j_files, j_on, j_how, df_left, df_right, j_idx, df_result,
                   j_ret, j_out>>
    /\ UNCHANGED not_join

\* Lines 129-131.
SheetsRead ==
    /\ j_fn = "join_excel_sheets" /\ j_pc = "read"
    /\ df_left' = read_csv(j_files[1])
    /\ df_right' = read_csv(j_files[2])
    /\ j_pc' = "keys"
    /\ UNCHANGED <<j_fn, j_files, j_on, j_how, j_idx, df_result, j_err, j_ret, j_out>>
    /\ UNCHANGED not_join

\* Lines 133-140.
SheetsCheckKeys ==
    /\ j_fn = "join_excel_sheets" /\ j_pc = "keys"
    /\ LET e == join_key_error(df_left, df_right, j_on)
       IN IF e # NoError
          THEN j_pc' = "raised" /\ j_err' = e
          ELSE j_pc' = "merge" /\ j_err' = j_err
    /\ UNCHANGED <<j_fn, j_files, j_on, j_how, df_left, df_right, j_idx, df_result,
                   j_ret, j_out>>
    /\ UNCHANGED not_join

\* Lines 142-152: the merge, and the return of its result.
SheetsMerge ==
    /\ j_fn = "join_excel_sheets" /\ j_pc = "merge"
    /\ LET e == merge_error(df_left, df_right, j_on, j_how)
       IN IF e # NoError
          THEN j_pc' = "raised" /\ j_err' = e /\ UNCHANGED <<df_result, j_ret>>
          ELSE /\ df_result' = merge(df_left, df_right, j_on, j_how)
               /\ j_ret' = [returned |-> TRUE, df |-> df_result']
               /\ j_pc' = "done" /\ j_err' = j_err
    /\ UNCHANGED <<j_fn, j_files, j_on, j_how, df_left, df_right, j_idx, j_out>>
    /\ UNCHANGED not_join

\* ------------------------------------------- join_multiple_csvs_sequential
\* len(files) >= 2
enough_files(files) == Len(files) >= 2

\* Lines 210-217: fewer than two files raise; the first file is read.
SeqStart ==
    /\ j_fn = "join_multiple_csvs_sequential" /\ j_pc = "start"
    /\ IF ~enough_files(j_files)
       THEN j_pc' = "raised" /\ j_err' = Error("Need at least 2 files")
            /\ UNCHANGED <<df_result, j_idx>>
       ELSE IF ~j_files[1].exists
       THEN j_pc' = "raised" /\ j_err' = Error("File not found")
            /\ UNCHANGED <<df_result, j_idx>>
       ELSE /\ df_result' = read_csv(j_files[1])
            /\ j_idx' = 1
            /\ j_pc' = "loop" /\ j_err' = j_err
    /\ UNCHANGED <<j_fn, j_files, j_on, j_how, df_left, df_right, j_ret, j_out>>
    /\ UNCHANGED not_join

\* One pass of the loop of lines 220-236: the next file is read, the keys are
\* looked up in it, and it is merged into the result.
SeqStep ==
    /\ j_fn = "join_multiple_csvs_sequential" /\ j_pc = "loop"
    /\ j_idx < Len(j_files)
    /\ LET file == j_files[j_idx + 1]
           df_next == read_csv(file)
           ke == next_key_error(df_next, j_on)
           me == merge_error(df_result, df_next, j_on, j_how)
       IN IF ~file.exists
          THEN j_pc' = "raised" /\ j_err' = Error("File not found")
               /\ UNCHANGED <<df_result, df_right, j_idx>>
          ELSE IF ke # NoError
          THEN j_pc' = "raised" /\ j_err' = ke /\ df_right' = df_next
               /\ UNCHANGED <<df_result, j_idx>>
          ELSE IF me # NoError
          THEN j_pc' = "raised" /\ j_err' = me /\ df_right' = df_next
               /\ UNCHANGED <<df_result, j_idx>>
          ELSE /\ df_result' = merge(df_result, df_next, j_on, j_how)
               /\ df_right' = df_next
               /\ j_idx' = j_idx + 1
               /\ UNCHANGED <<j_pc, j_err>>
    /\ UNCHANGED <<j_fn, j_files, j_on, j_how, df_left, j_ret, j_out>>
    /\ UNCHANGED not_join

\* Lines 238-245, for a call that names an output file.
SeqReturn ==
    /\ j_fn = "join_multiple_csvs_sequential" /\ j_pc = "loop"
    /\ j_idx = Len(j_files)
    /\ j_out' = write_csv(df_result, j_out, "w")
    /\ j_ret' = [returned |-> TRUE, df |-> df_result]
    /\ j_pc' = "done"
    /\ UNCHANGED <<j_fn, j_files, j_on, j_how, df_left, df_right, j_idx, df_result, j_err>>
    /\ UNCHANGED not_join

NextJoin ==
    \/ JoinValidate \/ JoinRead \/ JoinCheckKeys \/ JoinMerge \/ JoinReturn
    \/ SheetsValidate \/ SheetsRead \/ SheetsCheckKeys \/ SheetsMerge
    \/ SeqStart \/ SeqStep \/ SeqReturn

SpecJoin == InitJoin /\ [][NextJoin]_vars

\* -------------------------------------------------------- join properties
TwoTables == j_fn \in {"join_csvs", "join_excel_sheets"}
Sequential == j_fn = "join_multiple_csvs_sequential"
AllExist == \A k \in 1..Len(j_files) : j_files[k].exists

\* Some key column is not a column of table k.
LacksKey(k) == \E c \in Range(j_on) : c \notin Range(j_files[k].cols)

\* A two-table join of a kind other than cross, past the checks of the paths
\* and of the kind, with a key column missing from a table.
JoinKeyMissing ==
    /\ TwoTables /\ AllExist /\ j_how # "cross"
    /\ j_fn = "join_csvs" => j_how \in {"inner", "left", "right", "outer"}
    /\ LacksKey(1) \/ LacksKey(2)

\* Nothing has been matched, returned or written.
NothingJoined == df_result = EmptyFrame /\ j_ret = NotReturned /\ j_out = Absent

\* C15: for a join kind other than cross, join_csvs and join_excel_sheets
\* look the key columns up in both tables before matching any row; a missing
\* one makes the call raise an error that names the column and the table
\* lacking it, and no output file is written.
C15_MissingKeyRaises ==
    /\ [](JoinKeyMissing =>
            /\ j_pc \in {"start", "read", "keys", "raised"}
            /\ NothingJoined
            /\ j_pc = "raised" =>
                 /\ j_err.kind = "Join key not found"
                 /\ j_err.key \in Range(j_on)
                 /\ j_err.table \in {"left", "right"}
                 /\ j_err.key \notin Range(j_files[IF j_err.table = "left" THEN 1 ELSE 2].cols))
    /\ [][(JoinKeyMissing /\ j_pc = "keys") => j_pc' = "raised"]_vars

\* A join of two tables with rows raised on a key that only the right table
\* lacks.
C15_Witness ==
    /\ JoinKeyMissing /\ j_pc = "raised" /\ j_err.table = "right"
    /\ ~LacksKey(1) /\ Len(j_files[1].data) > 0 /\ Len(j_files[2].data) > 0

\* The product of the row counts of the files.
RECURSIVE RowProduct(_)
RowProduct(fs) == IF fs = <<>> THEN 1 ELSE Len(Head(fs).data) * RowProduct(Tail(fs))

\* C16: a cross join needs no key column: with how = 'cross' the three join
\* functions return every left row paired with every right row, whether or
\* not the columns named in 'on' are in the tables.
C16_CrossNeedsNoKeys ==
    (j_how = "cross" /\ AllExist /\ Len(j_files) >= 2) =>
        /\ j_pc # "raised"
        /\ j_pc = "done" => len(j_ret.df) = RowProduct(j_files)

\* C16 for tables that all have the key columns, a clash of suffixed column
\* names apart.
C16_CrossWithKeys ==
    \/ \E k \in 1..Len(j_files) : LacksKey(k)
    \/ j_pc = "raised" /\ j_err.kind = "MergeError"
    \/ C16_CrossNeedsNoKeys

\* The pairs of a left and a right row that are equal on every key column,
\* two missing key values being equal.
EqualKeyPairs ==
    {p \in (1..Len(j_files[1].data)) \X (1..Len(j_files[2].data)) :
        \A c \in Range(j_on) : key_eq(j_files[1].data[p[1]][c], j_files[2].data[p[2]][c])}

UnmatchedLeft == {i \in 1..Len(j_files[1].data) : \A p \in EqualKeyPairs : p[1] # i}

\* Row k of the result holds left row i in the left table's columns.
HoldsLeftRow(k, i) ==
    \A q \in 1..Len(j_files[1].cols) :
        j_ret.df.data[k][j_ret.df.cols[q]] = j_files[1].data[i][j_files[1].cols[q]]

\* Every right-derived column of row k of the result is missing.
RightMissing(k) ==
    \A q \in (Len(j_files[1].cols) + 1)..Len(j_ret.df.cols) :
        isna(j_ret.df.data[k][j_ret.df.cols[q]])

C19_BadKindRaises ==
    /\ []((j_fn = "join_csvs" /\ j_how \notin {"inner", "left", "right", "outer", "cross"}) =>
            /\ j_pc \in {"start", "raised"}
            /\ df_left = EmptyFrame /\ df_right = EmptyFrame
            /\ NothingJoined
            /\ j_pc = "raised" =>
                 j_err.kind = (IF AllExist THEN "'how' must be one of" ELSE "File not found"))
    /\ [][(j_fn = "join_csvs" /\ j_how \notin {"inner", "left", "right", "outer", "cross"}
            /\ j_pc = "start") => j_pc' = "raised"]_vars

\* join_csvs raised on the kind 'full' for two tables that exist and have
\* the key columns.
C19_Witness ==
    /\ j_fn = "join_csvs" /\ j_how = "full" /\ j_pc = "raised" /\ AllExist
    /\ ~LacksKey(1) /\ ~LacksKey(2) /\ Len(j_files[1].data) > 0

\* ((T1 join T2) join T3) ... join Tk with the key and the kind of the call.
RECURSIVE Fold(_)
Fold(k) ==
    IF k = 1 THEN read_csv(j_files[1])
    ELSE merge(Fold(k - 1), read_csv(j_files[k]), j_on, j_how)

RECURSIVE ColumnCount(_)
ColumnCount(k) == IF k = 0 THEN 0 ELSE ColumnCount(k - 1) + Len(j_files[k].cols)

\* The files joined into df_result so far.
JoinedSoFar ==
    IF Sequential THEN (IF j_pc \in {"loop", "done"} THEN j_idx ELSE 0)
    ELSE (IF j_pc \in {"write", "done"} THEN 2 ELSE 0)

\* The tables exist and have the key columns, and the kind is a valid one.
Joinable ==
    /\ AllExist /\ Len(j_files) >= 2 /\ j_how \in {"inner", "left", "right", "outer", "cross"}
    /\ \A k \in 1..Len(j_files) : ~LacksKey(k)

\* C21: a non-key column name that both sides have is kept under two
\* distinct suffixed names: after a pairwise join and after every step of a
\* sequential join over any number of tables the column names of the result
\* are pairwise distinct and every column of every input is there.
C21_SharedColumnsKept ==
    Joinable =>
        /\ ~(j_pc = "raised" /\ j_err.kind = "MergeError")
        /\ JoinedSoFar >= 1 =>
             /\ Cardinality(Range(df_result.cols)) = Len(df_result.cols)
             /\ Len(df_result.cols) =
                  ColumnCount(JoinedSoFar) - (JoinedSoFar - 1) * Len(merge_keys(j_on, j_how))
             /\ \A k \in 1..JoinedSoFar : \A c \in Range(j_files[k].cols) :
                  \E d \in Range(df_result.cols) : d \in {c, c \o suffix_x, c \o suffix_y}

\* C21 for joins of at most three tables.
C21_UpToThreeTables == Len(j_files) > 3 \/ C21_SharedColumnsKept

\* ------------------------------------------------------------ sheet names
\* Longest name or path a caller gives.
MaxNameLen == 32
\* Excel's limit on the length of a sheet name, as the code writes it.
SheetNameLimit == 31

\* The characters Excel does not allow in a sheet name.
InvalidSheetChars == {"/", "\\", "?", "*", "[", "]"}

\* str.replace(old, new) for a single character.
replace(s, old, new) == [i \in DOMAIN s |-> IF s[i] = old THEN new ELSE s[i]]

\* s[:n]
prefix(s, n) == SubSeq(s, 1, IF Len(s) < n THEN Len(s) ELSE n)

\* io.py 210: sheet_name[:31].replace('/', '_').replace('\\', '_')
excel_sheet_name(sheet_name) ==
    replace(replace(prefix(sheet_name, SheetNameLimit), "/", "_"), "\\", "_")

\* Path(f).name: what follows the last separator.
RECURSIVE path_name(_)
path_name(f) ==
    IF \A i \in DOMAIN f : f[i] # "/" THEN f
    ELSE path_name(Tail(f))

\* Path(f).stem: the name without its last suffix; a dot that begins or
\* ends the name starts no suffix.
stem(f) ==
    LET name == path_name(f)
        dots == {i \in DOMAIN name : name[i] = "."}
        last == CHOOSE i \in dots : \A j \in dots : j <= i
    IN IF dots = {} \/ last = 1 \/ last = Len(name) THEN name
       ELSE SubSeq(name, 1, last - 1)

\* io.py 169: the default sheet name of a CSV file, Path(f).stem[:31].
default_sheet_name(f) == prefix(stem(f), SheetNameLimit)

\* diffs.py 152, 157: f"Only in {file_a_name}"
only_in_title(display_name) == <<"O", "n", "l", "y", " ", "i", "n", " ">> \o display_name

\* utils.safe_sheet_name: invalid characters replaced, the name cut to the
\* limit, 'Sheet1' for an empty or blank name.
safe_sheet_name(name) ==
    LET Sheet1 == <<"S", "h", "e", "e", "t", "1">>
        replaced == [i \in DOMAIN name |-> IF name[i] \in InvalidSheetChars THEN "_" ELSE name[i]]
        cut == prefix(replaced, SheetNameLimit)
    IN IF name = <<>> THEN Sheet1
       ELSE IF \A i \in DOMAIN cut : cut[i] = " " THEN Sheet1
       ELSE cut

\* The characters of the names callers give.
NameChars == InvalidSheetChars \cup {"a", " ", "."}

\* The names callers give: up to MaxNameLen characters, all 'a' but one.
CallerNames ==
    {<<>>} \cup
    {[i \in 1..n |-> IF i = p THEN ch ELSE "a"] :
        n \in 1..MaxNameLen, p \in 1..MaxNameLen, ch \in NameChars}

SheetFunctions ==
    {"write_dataframes_to_excel", "csvs_to_excel", "export_diff_to_excel", "safe_sheet_name"}

InitSheet ==
    /\ DiffIdle /\ UnionIdle /\ JoinIdle /\ GuiIdle /\ MergeIdle
    /\ s_fn \in SheetFunctions
    /\ s_name \in CallerNames
    /\ s_pc = "start"
    /\ s_sheet = <<>>

\* io.py 208-211: every key of the dictionary goes to df.to_excel cut and
\* with the two slashes replaced.
WriteDataframesToExcel ==
    /\ s_fn = "write_dataframes_to_excel" /\ s_pc = "start"
    /\ s_sheet' = excel_sheet_name(s_name)
    /\ s_pc' = "passed"
    /\ UNCHANGED <<s_fn, s_name, not_sheet>>

\* io.py 168-177: without sheet_names the stem of each CSV path, cut, goes
\* to df.to_excel.
CsvsToExcel ==
    /\ s_fn = "csvs_to_excel" /\ s_pc = "start"
    /\ s_sheet' = default_sheet_name(s_name \o <<".", "c", "s", "v">>)
    /\ s_pc' = "passed"
    /\ UNCHANGED <<s_fn, s_name, not_sheet>>

\* diffs.py 151-159: wb.create_sheet(f"Only in {file_a_name}"), and the same
\* for file_b_name.
ExportDiffToExcel ==
    /\ s_fn = "export_diff_to_excel" /\ s_pc = "start"
    /\ s_sheet' = only_in_title(s_name)
    /\ s_pc' = "passed"
    /\ UNCHANGED <<s_fn, s_name, not_sheet>>

\* utils.safe_sheet_name, which none of the three writers calls.
SafeSheetName ==
    /\ s_fn = "safe_sheet_name" /\ s_pc = "start"
    /\ s_sheet' = safe_sheet_name(s_name)
    /\ s_pc' = "passed"
    /\ UNCHANGED <<s_fn, s_name, not_sheet>>

NextSheet == WriteDataframesToExcel \/ CsvsToExcel \/ ExportDiffToExcel \/ SafeSheetName

SpecSheet == InitSheet /\ [][NextSheet]_vars

\* A name Excel accepts: within the limit and without the six characters.
ValidSheetName(name) ==
    /\ Len(name) <= SheetNameLimit
    /\ \A i \in DOMAIN name : name[i] \notin InvalidSheetChars

\* C27: every sheet name that write_dataframes_to_excel, csvs_to_excel (by
\* default) and export_diff_to_excel ('Only in <name>') pass to the writer
\* is at most 31 characters long and has none of / \ ? * [ ], whatever
\* names the caller gives.
C27_SheetNamesValid ==
    (s_pc = "passed" /\ s_fn # "safe_sheet_name") => ValidSheetName(s_sheet)

\* What the three writers do ensure: write_dataframes_to_excel passes at most
\* 31 characters and neither slash, csvs_to_excel at most 31 characters and
\* no '/'; utils.safe_sheet_name gives a valid name.
C27_WhatHolds ==
    s_pc = "passed" =>
        /\ s_fn = "write_dataframes_to_excel" =>
              /\ Len(s_sheet) <= SheetNameLimit
              /\ \A i \in DOMAIN s_sheet : s_sheet[i] \notin {"/", "\\"}
        /\ s_fn = "csvs_to_excel" =>
              /\ Len(s_sheet) <= SheetNameLimit
              /\ \A i \in DOMAIN s_sheet : s_sheet[i] # "/"
        /\ s_fn = "safe_sheet_name" => ValidSheetName(s_sheet) /\ s_sheet # <<>>

\* ------------------------------------------------------------ excel_merge
\* Largest number of workbooks of a merge call.
MaxBooks == 2
\* Largest number of sheets of the workbooks of a call together.
MaxBookSheets == 3

\* get_excel_sheet_names: the sheet names of a workbook, in workbook order.
get_excel_sheet_names(book) == [k \in 1..Len(book.sheets) |-> book.sheets[k].name]

\* sheet_name in sheet_names
has_sheet(book, sheet_name) == sheet_name \in Range(get_excel_sheet_names(book))

\* read_excel_sheet: the table of the named sheet, typed as pd.read_excel
\* types it.
read_excel_sheet(book, sheet_name) ==
    LET sheet == CHOOSE sh \in Range(book.sheets) : sh.name = sheet_name
    IN infer_dtypes(read_csv(sheet.table))

\* A collection that reads the sheet from the first workbook that has it
\* and from no other.
FirstBookOnly(files, sheet_name) ==
    LET having == SelectSeq([k \in 1..Len(files) |-> k],
                            LAMBDA k : has_sheet(files[k], sheet_name))
    IN IF having = <<>> THEN <<>>
       ELSE <<[file |-> having[1], df |-> read_excel_sheet(files[having[1]], sheet_name)]>>

\* excel_merge.py 71-81: the sheet read from every workbook that has it, in
\* input order, each frame with the workbook it came from.
collect_sheet(files, sheet_name) ==
    LET having == SelectSeq([k \in 1..Len(files) |-> k],
                            LAMBDA k : has_sheet(files[k], sheet_name))
    IN [i \in 1..Len(having) |->
          [file |-> having[i], df |-> read_excel_sheet(files[having[i]], sheet_name)]]

\* The frames of a collection.
frames(dfs) == [i \in 1..Len(dfs) |-> dfs[i].df]

\* A strict merge that compares the column names as sets.
StrictComparesSets(dfs, sheet_name) ==
    LET reference_columns == dfs[1].df.cols
        differing == {i \in 2..Len(dfs) : Range(dfs[i].df.cols) # Range(reference_columns)}
        first == CHOOSE i \in differing : \A j \in differing : i <= j
    IN IF differing # {}
       THEN [err |-> [kind |-> "Column mismatch in strict mode", sheet |-> sheet_name,
                      reference |-> reference_columns, current |-> dfs[first].df.cols],
             df |-> EmptyFrame]
       ELSE [err |-> NoMergeError, df |-> concat(frames(dfs))]

\* _merge_sheets_strict: the first frame gives the reference columns; the
\* first later frame whose column list differs raises, naming the sheet and
\* both lists; otherwise the frames are concatenated.
_merge_sheets_strict(dfs, sheet_name) ==
    LET reference_columns == dfs[1].df.cols
        differing == {i \in 2..Len(dfs) : dfs[i].df.cols # reference_columns}
        first == CHOOSE i \in differing : \A j \in differing : i <= j
    IN IF dfs = <<>> THEN [err |-> MergeError("IndexError"), df |-> EmptyFrame]
       ELSE IF differing # {}
       THEN [err |-> [kind |-> "Column mismatch in strict mode", sheet |-> sheet_name,
                      reference |-> reference_columns, current |-> dfs[first].df.cols],
             df |-> EmptyFrame]
       ELSE [err |-> NoMergeError, df |-> concat(frames(dfs))]

\* _merge_sheets_lenient: every frame reindexed to the sorted names of all
\* columns, then concatenated.
_merge_sheets_lenient(dfs, sheet_name) ==
    LET all_columns == sorted_strs(UNION {Range(dfs[i].df.cols) : i \in 1..Len(dfs)})
    IN IF dfs = <<>>
       THEN [err |-> MergeError("No objects to concatenate"), df |-> EmptyFrame]
       ELSE [err |-> NoMergeError,
             df |-> concat([i \in 1..Len(dfs) |-> reindex_columns(dfs[i].df, all_columns)])]

\* if mode == 'strict': ... else: ...
merge_sheets(dfs, sheet_name, mode) ==
    IF mode = "strict" THEN _merge_sheets_strict(dfs, sheet_name)
    ELSE _merge_sheets_lenient(dfs, sheet_name)

\* A cell as Excel holds it: a number is a number, 1.0 being 1.
excel_cell(v) == IF v.k = "flt" THEN Num(v.n) ELSE v

\* write_dataframes_to_excel: a new workbook with one sheet per entry, in
\* the order of the dictionary, under the name cut and cleaned.
write_dataframes_to_excel(dataframes) ==
    [exists |-> TRUE,
     sheets |-> [k \in 1..Len(dataframes) |->
                   [name |-> excel_sheet_name(dataframes[k].name),
                    cols |-> dataframes[k].df.cols,
                    data |-> [i \in 1..len(dataframes[k].df) |->
                                [c \in Range(dataframes[k].df.cols) |->
                                    excel_cell(dataframes[k].df.data[i][c])]]]]]

\* ------------------------------------------------------------ merge inputs
sheet_A == <<"A">>
sheet_B == <<"B">>
sheet_C == <<"C">>

\* The tables of the sheets: over id and name with either of two rows, over
\* name and id, and over id and dept.
SheetTables ==
    {File(<<c_id, c_name>>, c_name, <<Row(Num(1), v_Bob)>>),
     File(<<c_id, c_name>>, c_name, <<Row(Num(2), NaN)>>),
     File(<<c_name, c_id>>, c_name, <<Row(Num(1), v_Bob)>>),
     File(<<c_id, c_dept>>, c_dept, <<Row(Num(2), v_Bob)>>)}

\* The workbooks: sheet A, sheet B, or both, and a path without a file.
Books ==
    {[exists |-> TRUE, sheets |-> <<[name |-> n, table |-> t]>>] :
        n \in {sheet_A, sheet_B}, t \in SheetTables}
    \cup {[exists |-> TRUE, sheets |-> <<[name |-> sheet_A, table |-> t],
                                         [name |-> sheet_B, table |-> u]>>] :
            t \in SheetTables, u \in SheetTables}
    \cup {NoBook}

RECURSIVE total_sheets(_)
total_sheets(fs) == IF fs = <<>> THEN 0 ELSE Len(Head(fs).sheets) + total_sheets(Tail(fs))

\* The workbook lists of a call.
BookLists ==
    {fs \in UNION {[1..n -> Books] : n \in 0..MaxBooks} : total_sheets(fs) <= MaxBookSheets}

\* A workbook an earlier run left at the output path.
OldBook == [exists |-> TRUE,
            sheets |-> <<[name |-> <<"o", "l", "d">>, cols |-> <<>>, data |-> <<>>]>>]

MergeFunctions ==
    {"merge_excel_files", "merge_excel_sheets_by_name", "merge_excel_common_sheets_only"}

InitMerge ==
    /\ DiffIdle /\ UnionIdle /\ JoinIdle /\ SheetIdle /\ GuiIdle
    /\ m_fn \in MergeFunctions
    /\ m_files \in BookLists
    /\ m_mode \in {"strict", "lenient", "fast"}
    /\ m_sheet_name \in (IF m_fn = "merge_excel_sheets_by_name"
                          THEN {sheet_A, sheet_C} ELSE {<<>>})
    /\ m_pc = "start"
    /\ m_names = <<>> /\ m_idx = 0 /\ sheet_dfs = <<>> /\ merged_sheets = <<>>
    /\ m_err = NoMergeError
    /\ m_out \in {NoBook, OldBook}

\* -------------------------------------------------------- merge_excel_files
\* Lines 39-47: the list must not be empty, the mode must be one of the two,
\* and every path must exist.
FilesValidate ==
    /\ m_fn = "merge_excel_files" /\ m_pc = "start"
    /\ IF m_files = <<>>
       THEN m_pc' = "raised" /\ m_err' = MergeError("excel_files list cannot be empty")
       ELSE IF m_mode \notin {"strict", "lenient"}
       THEN m_pc' = "raised" /\ m_err' = MergeError("mode must be 'strict' or 'lenient'")
       ELSE IF \E k \in 1..Len(m_files) : ~validate_file_exists(m_files[k])
       THEN m_pc' = "raised" /\ m_err' = MergeError("File not found")
       ELSE m_pc' = "collect" /\ m_err' = m_err
    /\ UNCHANGED <<m_fn, m_files, m_mode, m_sheet_name, m_names, m_idx, sheet_dfs,
                   merged_sheets, m_out, not_merge>>

\* Lines 51-65: the sheet names of all workbooks, sorted.
FilesCollect ==
    /\ m_fn = "merge_excel_files" /\ m_pc = "collect"
    /\ m_names' = sorted_strs(UNION {Range(get_excel_sheet_names(m_files[k])) :
                                      k \in 1..Len(m_files)})
    /\ m_idx' = 0
    /\ m_pc' = "sheets"
    /\ UNCHANGED <<m_fn, m_files, m_mode, m_sheet_name, sheet_dfs, merged_sheets,
                   m_err, m_out, not_merge>>

\* One round of a loop over the sheet names: the sheet is read from the
\* workbooks that have it and merged; a mismatch in strict mode raises.
merge_next_sheet ==
    LET sheet_name == m_names[m_idx + 1]
        merged == merge_sheets(collect_sheet(m_files, sheet_name), sheet_name, m_mode)
    IN IF merged.err # NoMergeError
       THEN /\ m_pc' = "raised" /\ m_err' = merged.err
            /\ UNCHANGED <<m_idx, merged_sheets>>
       ELSE /\ merged_sheets' = Append(merged_sheets, [name |-> sheet_name, df |-> merged.df])
            /\ m_idx' = m_idx + 1
            /\ UNCHANGED <<m_pc, m_err>>

\* Lines 67-93: one round of the loop over the sorted sheet names.
FilesSheet ==
    /\ m_fn = "merge_excel_files" /\ m_pc = "sheets" /\ m_idx < Len(m_names)
    /\ merge_next_sheet
    /\ UNCHANGED <<m_fn, m_files, m_mode, m_sheet_name, m_names, sheet_dfs, m_out,
                   not_merge>>

\* Lines 96-100: after the loop the merged sheets are written, all at once.
FilesWrite ==
    /\ m_fn = "merge_excel_files" /\ m_pc = "sheets" /\ m_idx = Len(m_names)
    /\ IF merged_sheets = <<>>
       THEN m_pc' = "raised" /\ m_err' = MergeError("No sheets were successfully merged")
            /\ m_out' = m_out
       ELSE m_pc' = "done" /\ m_err' = m_err
            /\ m_out' = write_dataframes_to_excel(merged_sheets)
    /\ UNCHANGED <<m_fn, m_files, m_mode, m_sheet_name, m_names, m_idx, sheet_dfs,
                   merged_sheets, not_merge>>

\* ----------------------------------------------- merge_excel_sheets_by_name
\* Lines 207-217: one round of the loop over the workbooks: the path must
\* exist; a workbook without the sheet is skipped, the sheet of the others
\* is read.
ByNameFile ==
    /\ m_fn = "merge_excel_sheets_by_name" /\ m_pc = "start" /\ m_idx < Len(m_files)
    /\ LET book == m_files[m_idx + 1]
       IN IF ~validate_file_exists(book)
          THEN m_pc' = "raised" /\ m_err' = MergeError("File not found")
               /\ UNCHANGED <<m_idx, sheet_dfs>>
          ELSE /\ m_idx' = m_idx + 1
               /\ sheet_dfs' = IF has_sheet(book, m_sheet_name)
                                THEN Append(sheet_dfs,
                                       [file |-> m_idx + 1,
                                        df |-> read_excel_sheet(book, m_sheet_name)])
                                ELSE sheet_dfs
               /\ UNCHANGED <<m_pc, m_err>>
    /\ UNCHANGED <<m_fn, m_files, m_mode, m_sheet_name, m_names, merged_sheets, m_out,
                   not_merge>>

\* A check that never finds the list of frames empty.
NeverEmpty(dfs) == FALSE

\* Line 219: if not sheet_dfs
none_found(dfs) == dfs = <<>>

\* Lines 219-226: no frame at all raises; otherwise the frames are merged,
\* strictly for 'strict' and leniently for anything else.
ByNameMerge ==
    /\ m_fn = "merge_excel_sheets_by_name" /\ m_pc = "start" /\ m_idx = Len(m_files)
    /\ IF none_found(sheet_dfs)
       THEN m_pc' = "raised"
            /\ m_err' = MergeError("Sheet not found in any of the provided files")
            /\ merged_sheets' = merged_sheets
       ELSE LET merged == merge_sheets(sheet_dfs, m_sheet_name, m_mode)
            IN IF merged.err # NoMergeError
               THEN m_pc' = "raised" /\ m_err' = merged.err
                    /\ merged_sheets' = merged_sheets
               ELSE m_pc' = "write" /\ m_err' = m_err
                    /\ merged_sheets' = <<[name |-> m_sheet_name, df |-> merged.df]>>
    /\ UNCHANGED <<m_fn, m_files, m_mode, m_sheet_name, m_names, m_idx, sheet_dfs,
                   m_out, not_merge>>

\* Line 229: the one merged sheet is written.
ByNameWrite ==
    /\ m_fn = "merge_excel_sheets_by_name" /\ m_pc = "write"
    /\ m_out' = write_dataframes_to_excel(merged_sheets)
    /\ m_pc' = "done"
    /\ UNCHANGED <<m_fn, m_files, m_mode, m_sheet_name, m_names, m_idx, sheet_dfs,
                   merged_sheets, m_err, not_merge>>

\* ------------------------------------------- merge_excel_common_sheets_only
\* get_common_sheets: the sheet names every workbook has, sorted; none for
\* an empty list.
get_common_sheets(files) ==
    IF files = <<>> THEN <<>>
    ELSE sorted_strs({n \in Range(get_excel_sheet_names(files[1])) :
                        \A k \in 1..Len(files) : has_sheet(files[k], n)})

\* Lines 270-273: the common sheets are looked up, which opens every
\* workbook; without a common sheet the call raises.
CommonSheets ==
    /\ m_fn = "merge_excel_common_sheets_only" /\ m_pc = "start"
    /\ IF \E k \in 1..Len(m_files) : ~m_files[k].exists
       THEN m_pc' = "raised" /\ m_err' = MergeError("Excel file not found")
            /\ m_names' = m_names
       ELSE IF get_common_sheets(m_files) = <<>>
       THEN m_pc' = "raised"
            /\ m_err' = MergeError("No common sheets found across all files")
            /\ m_names' = m_names
       ELSE m_pc' = "sheets" /\ m_err' = m_err
            /\ m_names' = get_common_sheets(m_files)
    /\ UNCHANGED <<m_fn, m_files, m_mode, m_sheet_name, m_idx, sheet_dfs,
                   merged_sheets, m_out, not_merge>>

\* Lines 279-291: one round of the loop over the common sheets.
CommonSheet ==
    /\ m_fn = "merge_excel_common_sheets_only" /\ m_pc = "sheets" /\ m_idx < Len(m_names)
    /\ merge_next_sheet
    /\ UNCHANGED <<m_fn, m_files, m_mode, m_sheet_name, m_names, sheet_dfs, m_out,
                   not_merge>>

\* Line 294: the merged sheets are written.
CommonWrite ==
    /\ m_fn = "merge_excel_common_sheets_only" /\ m_pc = "sheets" /\ m_idx = Len(m_names)
    /\ m_out' = write_dataframes_to_excel(merged_sheets)
    /\ m_pc' = "done"
    /\ UNCHANGED <<m_fn, m_files, m_mode, m_sheet_name, m_names, m_idx, sheet_dfs,
                   merged_sheets, m_err, not_merge>>

NextMerge ==
    \/ FilesValidate \/ FilesCollect \/ FilesSheet \/ FilesWrite
    \/ ByNameFile \/ ByNameMerge \/ ByNameWrite
    \/ CommonSheets \/ CommonSheet \/ CommonWrite

SpecMerge == InitMerge /\ [][NextMerge]_vars

\* ------------------------------------------------------- merge properties
\* The call has workbooks and all of them exist.
BooksValid == m_files # <<>> /\ \A k \in 1..Len(m_files) : m_files[k].exists

\* The sheet names of the input workbooks.
InputSheetNames == UNION {Range(get_excel_sheet_names(m_files[k])) : k \in 1..Len(m_files)}

\* The workbooks that have the sheet, in input order.
BooksHaving(n) ==
    SelectSeq([k \in 1..Len(m_files) |-> k], LAMBDA k : has_sheet(m_files[k], n))

\* The table of sheet n in workbook k.
TableOf(k, n) == (CHOOSE sh \in Range(m_files[k].sheets) : sh.name = n).table

\* The tables of sheet n, in input order.
TablesOf(n) == [i \in 1..Len(BooksHaving(n)) |-> TableOf(BooksHaving(n)[i], n)]

\* The rows of the tables, one table after the other, under the columns
\* cols: a row is missing in the columns its table lacks.
RECURSIVE RowsUnder(_, _)
RowsUnder(ts, cols) ==
    IF ts = <<>> THEN <<>>
    ELSE [i \in 1..Len(Head(ts).data) |->
            [c \in Range(cols) |->
                IF c \in Range(Head(ts).cols) THEN Head(ts).data[i][c] ELSE NaN]]
         \o RowsUnder(Tail(ts), cols)

\* The sheet names of the output workbook.
OutSheetNames == {m_out.sheets[k].name : k \in 1..Len(m_out.sheets)}

\* The output is what it was when the call began.
OutputUntouched == m_out \in {NoBook, OldBook}

\* C22: after a successful merge_excel_files the output workbook has one
\* sheet for each sheet name of the inputs and no other, and each sheet holds
\* the rows of that sheet from every workbook that has it, in input order and
\* without deduplication: as many rows as the workbooks have together.
C22_MergeKeepsEverySheet ==
    (m_fn = "merge_excel_files" /\ m_pc = "done") =>
        /\ m_out.exists
        /\ OutSheetNames = InputSheetNames
        /\ Cardinality(OutSheetNames) = Len(m_out.sheets)
        /\ \A k \in 1..Len(m_out.sheets) :
             LET sh == m_out.sheets[k]
             IN /\ Len(sh.data) = total_rows(TablesOf(sh.name))
                /\ sh.data = RowsUnder(TablesOf(sh.name), sh.cols)
                /\ Range(sh.cols) =
                     UNION {Range(TablesOf(sh.name)[i].cols) : i \in 1..Len(TablesOf(sh.name))}

\* Two workbooks with a row each in sheet A, only one of them with a sheet
\* B, merged into two sheets.
C22_Witness ==
    /\ m_fn = "merge_excel_files" /\ m_pc = "done" /\ Len(m_files) = 2
    /\ Len(BooksHaving(sheet_A)) = 2 /\ Len(BooksHaving(sheet_B)) = 1
    /\ \A i \in 1..2 : Len(TablesOf(sheet_A)[i].data) = 1
    /\ Len(m_out.sheets) = 2 /\ Len(m_out.sheets[1].data) = 2

\* The sheet names the call goes through, in order.
ProcessedNames ==
    CASE m_fn = "merge_excel_files" -> sorted_strs(InputSheetNames)
      [] m_fn = "merge_excel_sheets_by_name" ->
            (IF BooksHaving(m_sheet_name) = <<>> THEN <<>> ELSE <<m_sheet_name>>)
      [] OTHER -> get_common_sheets(m_files)

\* The workbooks whose column list for the sheet is not that of the first
\* workbook that has the sheet.
Differing(n) ==
    {i \in 2..Len(TablesOf(n)) : TablesOf(n)[i].cols # TablesOf(n)[1].cols}

\* A strict call on existing workbooks with a mismatch in a sheet it goes
\* through.
StrictMismatch ==
    /\ m_mode = "strict" /\ BooksValid
    /\ \E p \in 1..Len(ProcessedNames) : Differing(ProcessedNames[p]) # {}

\* The error of the first mismatch: the first such sheet, the reference
\* column list and the first column list that differs.
FirstMismatch ==
    LET p == CHOOSE q \in 1..Len(ProcessedNames) :
                /\ Differing(ProcessedNames[q]) # {}
                /\ \A r \in 1..(q - 1) : Differing(ProcessedNames[r]) = {}
        n == ProcessedNames[p]
        i == CHOOSE j \in Differing(n) : \A l \in Differing(n) : j <= l
    IN [kind |-> "Column mismatch in strict mode", sheet |-> n,
        reference |-> TablesOf(n)[1].cols, current |-> TablesOf(n)[i].cols]

\* C23: in strict mode the first workbook that has a sheet gives the
\* reference column list; a later workbook whose list differs in a name or
\* in the order makes the call raise a column mismatch that names the sheet
\* and both lists, and no sheet is written: the output is neither created nor
\* modified, whichever sheet the mismatch is in.
C23_StrictMismatchRaises ==
    /\ [](StrictMismatch =>
            /\ m_pc \notin {"write", "done"}
            /\ OutputUntouched
            /\ m_pc = "raised" => m_err = FirstMismatch)
    /\ []((m_mode = "strict" /\ m_pc = "done") =>
            \A k \in 1..Len(m_out.sheets) :
                m_out.sheets[k].cols = TablesOf(m_out.sheets[k].name)[1].cols)
    /\ [][StrictMismatch => m_out' = m_out]_vars

\* merge_excel_files has merged sheet A and raised on sheet B, where the
\* second workbook has the columns of the first in swapped order; the
\* workbook an earlier run left is still there.
C23_Witness ==
    /\ m_fn = "merge_excel_files" /\ m_pc = "raised" /\ StrictMismatch
    /\ m_err.sheet = sheet_B /\ Len(merged_sheets) = 1
    /\ m_err.reference # m_err.current
    /\ Range(m_err.reference) = Range(m_err.current)
    /\ m_out = OldBook

\* C24: a lenient merge reconciles the columns as the union does and never
\* raises a column mismatch: the columns of a merged sheet are those of the
\* first workbook followed by the new names of later workbooks in the order
\* met, and each row is missing in exactly the columns its sheet lacked.
C24_LenientEncounterOrder ==
    m_mode = "lenient" =>
        /\ m_err.kind # "Column mismatch in strict mode"
        /\ m_pc = "done" =>
             \A k \in 1..Len(m_out.sheets) :
                LET sh == m_out.sheets[k]
                IN /\ sh.cols = EncounterOrder(TablesOf(sh.name))
                   /\ sh.data = RowsUnder(TablesOf(sh.name), sh.cols)

\* C24 with the columns in sorted order, as the code reconciles them.
C24_SortedColumns ==
    m_mode = "lenient" =>
        /\ m_err.kind # "Column mismatch in strict mode"
        /\ m_pc = "done" =>
             \A k \in 1..Len(m_out.sheets) :
                LET sh == m_out.sheets[k]
                IN /\ sh.cols = sorted_strs(Range(EncounterOrder(TablesOf(sh.name))))
                   /\ sh.data = RowsUnder(TablesOf(sh.name), sh.cols)

\* Nothing has been read or merged.
NothingRead == sheet_dfs = <<>> /\ merged_sheets = <<>> /\ m_names = <<>>

\* C25: each of the three merge functions raises an empty-input error for
\* an empty list of workbooks and an invalid-mode error for a mode that is
\* neither 'strict' nor 'lenient', before it reads a workbook and without
\* writing; an unknown mode is never taken for lenient.
C25_BadArgumentsRaise ==
    /\ m_files = <<>> =>
         /\ m_pc \in {"start", "raised"} /\ NothingRead /\ OutputUntouched
         /\ m_pc = "raised" => m_err.kind = "excel_files list cannot be empty"
    /\ (m_files # <<>> /\ m_mode \notin {"strict", "lenient", ""}) =>
         /\ m_pc \in {"start", "raised"} /\ NothingRead /\ OutputUntouched
         /\ m_pc = "raised" => m_err.kind = "mode must be 'strict' or 'lenient'"

\* C25 for merge_excel_files, the one function that checks its arguments.
C25_MergeExcelFiles == m_fn # "merge_excel_files" \/ C25_BadArgumentsRaise

\* No workbook of the call has the named sheet.
NoneHasSheet == BooksHaving(m_sheet_name) = <<>>

\* C26: merge_excel_sheets_by_name skips the workbooks that lack the named
\* sheet and merges the sheet from exactly the others, in input order; it
\* raises the sheet-not-found error if and only if no workbook has the sheet,
\* and then writes nothing.
C26_ByNameSkipsAndFinds ==
    m_fn = "merge_excel_sheets_by_name" =>
        /\ m_err.kind = "Sheet not found in any of the provided files" =>
              /\ NoneHasSheet /\ m_pc = "raised" /\ OutputUntouched
              /\ \A k \in 1..Len(m_files) : m_files[k].exists
        /\ (NoneHasSheet /\ \A k \in 1..Len(m_files) : m_files[k].exists) =>
              /\ m_pc \in {"start", "raised"} /\ OutputUntouched
              /\ m_pc = "raised" =>
                   m_err.kind = "Sheet not found in any of the provided files"
        /\ [i \in 1..Len(sheet_dfs) |-> sheet_dfs[i].file]
              = SelectSeq(BooksHaving(m_sheet_name), LAMBDA k : k <= m_idx)
        /\ m_pc = "done" =>
              /\ Len(m_out.sheets) = 1
              /\ m_out.sheets[1].name = m_sheet_name
              /\ m_out.sheets[1].data = RowsUnder(TablesOf(m_sheet_name), m_out.sheets[1].cols)

\* Of two workbooks the first has no sheet A; the sheet of the second, a
\* row, is the output.
C26_Witness ==
    /\ m_fn = "merge_excel_sheets_by_name" /\ m_pc = "done" /\ Len(m_files) = 2
    /\ m_sheet_name = sheet_A /\ BooksHaving(sheet_A) = <<2>>
    /\ m_files[1].exists
    /\ Len(m_out.sheets[1].data) = 1

\* ------------------------------------------------------------ the Tk window
\* Largest number of operations started in one session.
MaxOperations == 2

\* A worker thread: where run() is, how the task ended, the stop event, and
\* the number of messages it has put on the result queue.
NewWorker == [pc |-> "run", outcome |-> "", stop |-> FALSE, puts |-> 0]

\* The window after __init__: nothing running, the log poll scheduled.
InitGui ==
    /\ DiffIdle /\ UnionIdle /\ JoinIdle /\ SheetIdle /\ MergeIdle
    /\ is_running = FALSE /\ start_button = "normal" /\ stop_button = "disabled"
    /\ workers = <<>> /\ result_queue = <<>> /\ log_queue = <<>>
    /\ after_polls = 0 /\ g_pc = "idle" /\ dialog = ""

\* A start request that ignores a running operation.
NeverRunning == FALSE

\* gui_tk.py 507: if self.state.is_running
already_running == is_running

\* gui_tk.py 505-529: a start request.  With an operation running it warns
\* and returns; when _prepare_operation raises it reports the failure;
\* otherwise it empties both queues and starts a worker thread.
StartOperation ==
    /\ g_pc = "idle"
    /\ IF already_running
       THEN /\ dialog' = "Operation Running"
            /\ UNCHANGED <<is_running, start_button, stop_button, workers,
                           result_queue, log_queue, after_polls, g_pc>>
       ELSE \E prepared \in BOOLEAN :
              IF ~prepared
              THEN /\ dialog' = "Failed to start operation"
                   /\ UNCHANGED <<is_running, start_button, stop_button, workers,
                                  result_queue, log_queue, after_polls, g_pc>>
              ELSE /\ Len(workers) < MaxOperations
                   /\ log_queue' = <<>>
                   /\ result_queue' = <<>>
                   /\ workers' = Append(workers, NewWorker)
                   /\ g_pc' = "starting"
                   /\ UNCHANGED <<is_running, start_button, stop_button, after_polls, dialog>>
    /\ UNCHANGED not_gui

\* gui_tk.py 679-700, one call of _poll_result_queue with pending callbacks
\* left: a message ends the operation, an empty queue schedules the next
\* poll while the operation runs.
poll_result_queue(running, pending) ==
    IF result_queue # <<>>
    THEN /\ result_queue' = Tail(result_queue)
         /\ is_running' = FALSE
         /\ start_button' = "normal"
         /\ stop_button' = "disabled"
         /\ dialog' = IF Head(result_queue).status = "success" THEN "Success" ELSE "Error"
         /\ after_polls' = pending
    ELSE /\ result_queue' = result_queue
         /\ is_running' = running
         /\ start_button' = (IF g_pc = "starting" THEN "disabled" ELSE start_button)
         /\ stop_button' = (IF g_pc = "starting" THEN "normal" ELSE stop_button)
         /\ dialog' = dialog
         /\ after_polls' = pending + (IF running THEN 1 ELSE 0)

\* gui_tk.py 531-538: after worker_thread.start() the handler sets
\* is_running, switches the buttons and polls the result queue once.
StartOperationRest ==
    /\ g_pc = "starting"
    /\ poll_result_queue(TRUE, after_polls)
    /\ g_pc' = "idle"
    /\ UNCHANGED <<workers, log_queue, not_gui>>

\* The timer fires a pending _poll_result_queue.
PollResultQueue ==
    /\ g_pc = "idle" /\ after_polls > 0
    /\ poll_result_queue(is_running, after_polls - 1)
    /\ UNCHANGED <<workers, log_queue, g_pc, not_gui>>

\* gui_tk.py 702-712: _poll_log_queue empties the log queue.
PollLogQueue ==
    /\ g_pc = "idle" /\ log_queue # <<>>
    /\ log_queue' = <<>>
    /\ UNCHANGED <<is_running, start_button, stop_button, workers, result_queue,
                   after_polls, g_pc, dialog, not_gui>>

\* gui_tk.py 672-677: a stop request tells the user the thread will finish;
\* it does not touch the worker.
StopOperation ==
    /\ g_pc = "idle"
    /\ workers # <<>> /\ workers[Len(workers)].pc # "finished"
    /\ dialog' = "Stop"
    /\ UNCHANGED <<is_running, start_button, stop_button, workers, result_queue,
                   log_queue, after_polls, g_pc, not_gui>>

\* gui_common.py 71-73: WorkerThread.stop() sets the stop event.  The window
\* never calls it; a caller that holds the thread may.
WorkerStop ==
    /\ \E w \in 1..Len(workers) :
         /\ workers[w].pc # "finished" /\ ~workers[w].stop
         /\ workers' = [workers EXCEPT ![w].stop = TRUE]
    /\ UNCHANGED <<is_running, start_button, stop_button, result_queue, log_queue,
                   after_polls, g_pc, dialog, not_gui>>

\* gui_common.py 55-57: run() announces the start.
WorkerBegin ==
    /\ \E w \in 1..Len(workers) :
         /\ workers[w].pc = "run"
         /\ workers' = [workers EXCEPT ![w].pc = "call"]
    /\ log_queue' = Append(log_queue, "Starting operation...")
    /\ UNCHANGED <<is_running, start_button, stop_button, result_queue,
                   after_polls, g_pc, dialog, not_gui>>

\* gui_common.py 59: the engine call returns or raises.
WorkerCall ==
    /\ \E w \in 1..Len(workers) : \E outcome \in {"success", "error"} :
         /\ workers[w].pc = "call"
         /\ workers' = [workers EXCEPT ![w].pc = "result", ![w].outcome = outcome]
    /\ UNCHANGED <<is_running, start_button, stop_button, result_queue, log_queue,
                   after_polls, g_pc, dialog, not_gui>>

\* gui_common.py 61-63, 65-68: unless the stop event is set, the result or
\* the exception text goes on the result queue.
WorkerPutResult ==
    /\ \E w \in 1..Len(workers) :
         /\ workers[w].pc = "result"
         /\ IF workers[w].stop
            THEN /\ workers' = [workers EXCEPT ![w].pc = "finished"]
                 /\ result_queue' = result_queue
            ELSE /\ workers' = [workers EXCEPT ![w].pc = "log", ![w].puts = @ + 1]
                 /\ result_queue' = Append(result_queue,
                                        [status |-> workers[w].outcome, worker |-> w])
    /\ UNCHANGED <<is_running, start_button, stop_button, log_queue,
                   after_polls, g_pc, dialog, not_gui>>

\* gui_common.py 64, 69: the closing log message, and the thread ends.
WorkerLog ==
    /\ \E w \in 1..Len(workers) :
         /\ workers[w].pc = "log"
         /\ workers' = [workers EXCEPT ![w].pc = "finished"]
         /\ log_queue' = Append(log_queue,
                IF workers[w].outcome = "success" THEN "Operation completed successfully!"
                ELSE "Error")
    /\ UNCHANGED <<is_running, start_button, stop_button, result_queue,
                   after_polls, g_pc, dialog, not_gui>>

WorkerStep == WorkerBegin \/ WorkerCall \/ WorkerPutResult \/ WorkerLog

NextGui ==
    \/ StartOperation \/ StartOperationRest \/ PollResultQueue \/ PollLogQueue
    \/ StopOperation \/ WorkerStop
    \/ WorkerBegin \/ WorkerCall \/ WorkerPutResult \/ WorkerLog

SpecGui == InitGui /\ [][NextGui]_vars

\* The worker threads are scheduled and the engine call ends, the Tk main
\* loop finishes the handler it is in and fires the timers it holds.
SpecGuiFair ==
    /\ InitGui /\ [][NextGui]_vars
    /\ WF_vars(WorkerStep) /\ WF_vars(StartOperationRest) /\ WF_vars(PollResultQueue)

\* Every worker has put at most one message, none before its call ended,
\* one once it is past the put with stop() not called, and the message names
\* how its call ended.
OneMessagePerWorker ==
    /\ \A w \in 1..Len(workers) :
         /\ workers[w].puts <= 1
         /\ workers[w].pc \in {"run", "call", "result"} => workers[w].puts = 0
         /\ (workers[w].pc \in {"log", "finished"} /\ ~workers[w].stop) => workers[w].puts = 1
         /\ Cardinality({i \in 1..Len(result_queue) : result_queue[i].worker = w})
              <= workers[w].puts
    /\ \A i \in 1..Len(result_queue) :
         /\ result_queue[i].status \in {"success", "error"}
         /\ result_queue[i].status = workers[result_queue[i].worker].outcome

\* A step that takes a message off the result queue to show it.
ResultPolled == Len(result_queue') < Len(result_queue) /\ g_pc' = "idle" /\ workers' = workers

\* C30: every worker runs the call to its end and then puts exactly one
\* message, 'success' or 'error' as the call ended (none only if stop() was
\* called); while is_running no start request creates a worker; the step that
\* polls the result leaves the window idle (is_running false, start button
\* enabled), and a running operation whose worker was not stopped gets there.
C30_WorkerProtocol ==
    /\ [](OneMessagePerWorker)
    /\ [][is_running => Len(workers') = Len(workers)]_vars
    /\ [][ResultPolled => (~is_running' /\ start_button' = "normal")]_vars
    /\ [](~is_running => start_button = "normal" \/ g_pc = "starting")
    /\ (is_running ~> (~is_running \/ \E w \in 1..Len(workers) : workers[w].stop))

\* A second operation ended in an error that the window has shown; both
\* workers put their one message and none was stopped.
C30_Witness ==
    /\ Len(workers) = 2 /\ workers[2].outcome = "error" /\ workers[2].puts = 1
    /\ workers[1].puts = 1 /\ ~workers[1].stop /\ ~workers[2].stop
    /\ ~is_running /\ start_button = "normal" /\ dialog = "Error"
    /\ result_queue = <<>> /\ g_pc = "idle"

\* -------------------------------------------------------------- the whole
Init == InitDiff \/ InitUnion \/ InitJoin \/ InitSheet \/ InitGui \/ InitMerge

Next == NextDiff \/ NextUnion \/ NextJoin \/ NextSheet \/ NextGui \/ NextMerge

Spec == Init /\ [][Next]_vars

====
